---- MODULE Spec2Model ----
(***************************************************************************)
(* Model of the similarity-index store of contas-luz                       *)
(* (app/services/faiss_service.py, class FaissService), of the files it    *)
(* keeps in settings.DIRETORIO_FAISS, and of the embedding cache, index    *)
(* and search of app/services/embeddings_service.py (EmbeddingsService),   *)
(* and of the sessions of app/services/session_service.py (SessionManager) *)
(* with their store in app/models/database.py (SessionStore).              *)
(*                                                                         *)
(* Strings that the code takes apart (index ids, file names, the string    *)
(* keys of the mapping file) are sequences of character codes, so that     *)
(* startswith, endswith, split, sort and int() are computed as Python      *)
(* computes them.                                                          *)
(***************************************************************************)
EXTENDS Integers, Sequences, FiniteSets, TLC

(* ------------------------------ bounds -------------------------------- *)
\* seconds of wall clock the model lets pass (datetime.now() in 0..MaxClock)
MaxClock == 1
\* largest ntotal an index may reach in the runs of Spec
MaxVetores == 1
\* number of salvar_indice calls that reach the file system
MaxSalvar == 2
\* largest ntotal an index may reach in the runs of SpecAdd
MaxVetoresAdd == 3

(* ------------------------------ strings ------------------------------- *)
\* "_"  "."  ".index"  "_mapping.json"  "_metadata.json"
Und == <<95>>
Ponto == <<46>>
ExtIndex == <<46, 105, 110, 100, 101, 120>>
SufMapping == <<95, 109, 97, 112, 112, 105, 110, 103, 46, 106, 115, 111, 110>>
SufMetadata == <<95, 109, 101, 116, 97, 100, 97, 116, 97, 46, 106, 115, 111, 110>>

\* Python's None where a string is expected: no string has a negative code
None == << -1 >>

\* the index ids callers use: "a" and "a_b"
IdA == <<97>>
IdAB == <<97, 95, 98>>
Ids == {IdA, IdAB}

\* str.startswith / str.endswith
StartsWith(s, p) == Len(s) >= Len(p) /\ SubSeq(s, 1, Len(p)) = p
EndsWith(s, p) == Len(s) >= Len(p) /\ SubSeq(s, Len(s) - Len(p) + 1, Len(s)) = p

\* str.split(c) for a one-character separator
RECURSIVE Split(_, _)
Split(s, c) ==
    IF \E i \in 1..Len(s) : s[i] = c
    THEN LET i == CHOOSE k \in 1..Len(s) : s[k] = c /\ \A j \in 1..(k - 1) : s[j] # c
         IN  <<SubSeq(s, 1, i - 1)>> \o Split(SubSeq(s, i + 1, Len(s)), c)
    ELSE <<s>>

\* Python's < on str: code point by code point, a proper prefix is smaller
RECURSIVE StrLess(_, _)
StrLess(a, b) ==
    IF a = <<>> THEN b # <<>>
    ELSE IF b = <<>> THEN FALSE
    ELSE IF a[1] # b[1] THEN a[1] < b[1]
    ELSE StrLess(Tail(a), Tail(b))

\* list.sort(reverse=True) followed by [0]
MaiorNome(S) == CHOOSE x \in S : \A y \in S : y = x \/ StrLess(y, x)

\* str(int) and int(str) in base ten
RECURSIVE StrOfNat(_)
StrOfNat(n) == IF n < 10 THEN <<48 + n>> ELSE StrOfNat(n \div 10) \o <<48 + (n % 10)>>
StrOfInt(i) == IF i < 0 THEN <<45>> \o StrOfNat(0 - i) ELSE StrOfNat(i)
RECURSIVE NatOfStr(_)
NatOfStr(s) ==
    IF Len(s) = 1 THEN s[1] - 48
    ELSE 10 * NatOfStr(SubSeq(s, 1, Len(s) - 1)) + (s[Len(s)] - 48)
IntOfStr(s) == IF s[1] = 45 THEN 0 - NatOfStr(Tail(s)) ELSE NatOfStr(s)

\* datetime.now().strftime("%Y%m%d%H%M%S"): a fixed-width digit string with a
\* resolution of one second (two digits here, fourteen in the code)
Timestamp(t) == <<48 + ((t \div 10) % 10), 48 + (t % 10)>>

\* the three file names of salvar_indice
NomeIndice(id, ts) == id \o Und \o ts \o ExtIndex
NomeMapeamento(id, ts) == id \o Und \o ts \o SufMapping
NomeMetadata(id, ts) == id \o Und \o ts \o SufMetadata

(* ------------------------------- state -------------------------------- *)
VARIABLES
    indices,       \* self.indices: id -> index (tipo, d, stored vectors)
    mapeamentos,   \* self.mapeamentos: id -> (int slot -> document)
    metadados,     \* self.metadados: id -> IndiceMetadata
    disco,         \* the files of DIRETORIO_FAISS: name -> content
    relogio,       \* datetime.now(), in seconds
    nSalvar,       \* persists made so far (salvar_indice, construir_indice_faiss)
    ult,           \* the last call: operation, id, argument, return value
    ultimoSalvo,   \* id -> index and mapping at its last successful persist
    cache_embeddings,   \* EmbeddingsService.cache_embeddings: key -> vector
    index,              \* EmbeddingsService.index: None or an index
    id_para_documento,  \* EmbeddingsService.id_para_documento: slot -> document
    indice_metadata,    \* EmbeddingsService.indice_metadata: None or IndiceMetadata
    disco_cache,        \* the files of the embeddings_cache directory
    chamadas,           \* calls made to client.embeddings.create so far
    inicializado,       \* FaissService.inicializado
    tarefas,            \* the coroutines of the event loop that call the FaissService
    sm_sessoes,         \* SessionManager.sessoes: session id -> Sessao
    store_sessoes,      \* SessionStore.sessoes: session id -> dados
    db_sessoes,         \* the files of <DATA_DIR>/sessoes: document id -> dados
    uuids               \* uuid.uuid4() calls made so far

vars == <<indices, mapeamentos, metadados, disco, relogio, nSalvar, ult, ultimoSalvo,
          cache_embeddings, index, id_para_documento, indice_metadata, disco_cache,
          chamadas, inicializado, tarefas, sm_sessoes, store_sessoes, db_sessoes, uuids>>

\* the state of the EmbeddingsService and of its provider
varsEmb == <<cache_embeddings, index, id_para_documento, indice_metadata, disco_cache,
             chamadas>>

\* the start-up flag of the FaissService and the coroutines in flight
varsExec == <<inicializado, tarefas>>

\* the sessions of the SessionManager, of the SessionStore and of its files
varsSessao == <<sm_sessoes, store_sessoes, db_sessoes, uuids>>

\* the empty dict / empty mapping argument
Vazio == <<>>

\* dict update d[k] = v and del d[k]
Put(f, k, v) == [x \in (DOMAIN f) \cup {k} |-> IF x = k THEN v ELSE f[x]]
Del(f, k) == [x \in (DOMAIN f) \ {k} |-> f[x]]

(* ----------------------------- documents ------------------------------ *)
\* a pydantic document (ClienteDocumento, ...) and the dict json gives back
DocObj(c) == [forma |-> "obj", cid |-> c]
DocDict(c) == [forma |-> "dict", cid |-> c]
\* doc.dict() if hasattr(doc, "dict") else doc
Serializa(doc) == DocDict(doc.cid)

(* ------------------------------ vectors ------------------------------- *)
Zero(d) == [i \in 1..d |-> 0]
Unit(d) == [i \in 1..d |-> IF i = 1 THEN 1 ELSE 0]
\* a batch: a 2-D array of rows, or a 1-D array
Lote(rows) == [forma2D |-> TRUE, vet |-> rows]
Lote1D == [forma2D |-> FALSE, vet |-> <<>>]
\* vetores.shape[0] and vetores.shape[1]
Linhas(lote) == Len(lote.vet)
Colunas(lote) == Len(lote.vet[1])
\* index.ntotal
NTotal(idx) == Len(idx.vecs)

\* the inputs of the runs of SpecAdd: dimensions, batches, and mapping
\* arguments (None, and local slots inside and outside the batch)
Dims == {1, 2}
Lotes == {Lote(<<Unit(1)>>), Lote(<<Zero(1), Unit(1)>>), Lote(<<Unit(2)>>), Lote1D}
MapArgs ==
    { Vazio,
      (0 :> DocObj("A")),
      ((0 - 1) :> DocObj("B")),
      (1 :> DocObj("B")) }

\* the narrower inputs of the runs of Spec, which also persist and load
DimsDisco == {1}
LotesDisco == {Lote(<<Unit(1)>>), Lote(<<Unit(2)>>), Lote1D}
MapArgsDisco == {Vazio, (0 :> DocObj("A"))}

\* model bound: the batch fits under the cap max on ntotal
Cabe(id, lote, max) ==
    (id \in DOMAIN indices /\ lote.forma2D) => NTotal(indices[id]) + Linhas(lote) <= max

\* ult: the operation called last, its id, the argument that decides its case
\* (the batch of an add, the failing write of a persist, the file name of a
\* load) and the value it returned
NoUlt == [op |-> "init", id |-> None, arg |-> None, ret |-> FALSE]
Chamada(op, id, arg, ret) == [op |-> op, id |-> id, arg |-> arg, ret |-> ret]

\* None where EmbeddingsService holds no index and no metadata
SemIndice == [tipo |-> "None", d |-> 0, vecs |-> <<>>]
SemMetadata == [id |-> None, dimensao |-> 0, num_vetores |-> 0, tem_mapeamento_ids |-> FALSE]

\* a coroutine that calls adicionar_vetores and one that calls
\* buscar_documentos: where each stands (pc), its arguments and its locals;
\* exec is the coroutine the event loop is running, if any
TarefaAdd == [pc |-> "inativa", id |-> None, lote |-> Lote1D, mapa |-> Vazio, offset |-> 0]
TarefaBusca ==
    [pc |-> "inativa", id |-> None, q |-> Lote1D, k |-> 0, I |-> <<>>, D |-> <<>>,
     resultados |-> <<>>]
SemTarefas == [exec |-> "nenhuma", add |-> TarefaAdd, busca |-> TarefaBusca]

\* __init__: empty tables; the directory holds no snapshot yet
Init ==
    /\ indices = Vazio
    /\ mapeamentos = Vazio
    /\ metadados = Vazio
    /\ disco = Vazio
    /\ relogio = 0
    /\ nSalvar = 0
    /\ ult = NoUlt
    /\ ultimoSalvo = Vazio
    /\ cache_embeddings = Vazio
    /\ index = SemIndice
    /\ id_para_documento = Vazio
    /\ indice_metadata = SemMetadata
    /\ disco_cache = Vazio
    /\ chamadas = 0
    /\ inicializado = FALSE
    /\ tarefas = SemTarefas
    /\ sm_sessoes = Vazio
    /\ store_sessoes = Vazio
    /\ db_sessoes = Vazio
    /\ uuids = 0

(* ---------------------------- criar_indice ---------------------------- *)
\* "flat" (IndexFlatL2); "hnsw" and unknown types store and add like it.
\* metadados is None; the dates of IndiceMetadata are not kept as values.
Tipos == {"flat"}

\* a mutation of criar_indice: an id in use is created again
criar_indice_Sobrescreve(id, dimensao, tipo) ==
    /\ indices' = Put(indices, id, [tipo |-> tipo, d |-> dimensao, vecs |-> <<>>])
    /\ mapeamentos' = Put(mapeamentos, id, Vazio)
    /\ metadados' = Put(metadados, id,
           [id |-> id, dimensao |-> dimensao, num_vetores |-> 0,
            tem_mapeamento_ids |-> TRUE])
    /\ ult' = Chamada("criar_indice", id, None, TRUE)
    /\ UNCHANGED <<disco, relogio, nSalvar, ultimoSalvo>>
    /\ UNCHANGED varsEmb
    /\ UNCHANGED varsExec
    /\ UNCHANGED varsSessao

criar_indice(id, dimensao, tipo) ==
    /\ IF id \in DOMAIN indices
       THEN /\ ult' = Chamada("criar_indice", id, None, FALSE)
            /\ UNCHANGED <<indices, mapeamentos, metadados>>
       ELSE /\ indices' = Put(indices, id, [tipo |-> tipo, d |-> dimensao, vecs |-> <<>>])
            /\ mapeamentos' = Put(mapeamentos, id, Vazio)
            /\ metadados' = Put(metadados, id,
                   [id |-> id, dimensao |-> dimensao, num_vetores |-> 0,
                    tem_mapeamento_ids |-> TRUE])
            /\ ult' = Chamada("criar_indice", id, None, TRUE)
    /\ UNCHANGED <<disco, relogio, nSalvar, ultimoSalvo>>
    /\ UNCHANGED varsEmb
    /\ UNCHANGED varsExec
    /\ UNCHANGED varsSessao

(* -------------------------- adicionar_vetores ------------------------- *)
\* a mutation of DimensaoConfere: the width of the batch is not compared
DimensaoConfere_SoForma(lote, idx) == lote.forma2D

\* the two checks of lines 257 and 261: a 2-D batch whose width is index.d
DimensaoConfere(lote, idx) == lote.forma2D /\ Colunas(lote) = idx.d

\* the mapping after "for idx, doc in mapeamento.items(): m[offset + idx] = doc"
Desloca(antigo, mapa, offset) ==
    [k \in (DOMAIN antigo) \cup {offset + i : i \in DOMAIN mapa} |->
        IF (k - offset) \in DOMAIN mapa THEN mapa[k - offset] ELSE antigo[k]]

adicionar_vetores(id, lote, mapa) ==
    /\ UNCHANGED <<disco, relogio, nSalvar, ultimoSalvo>>
    /\ UNCHANGED varsEmb
    /\ UNCHANGED varsExec
    /\ UNCHANGED varsSessao
    /\ IF id \notin DOMAIN indices
       THEN /\ ult' = Chamada("adicionar_vetores", id, lote, FALSE)
            /\ UNCHANGED <<indices, mapeamentos, metadados>>
       ELSE IF ~DimensaoConfere(lote, indices[id])
       THEN \* the ValueError of either check is caught: return False
            /\ ult' = Chamada("adicionar_vetores", id, lote, FALSE)
            /\ UNCHANGED <<indices, mapeamentos, metadados>>
       ELSE LET offset == NTotal(indices[id])
                novo == [indices[id] EXCEPT !.vecs = @ \o lote.vet]
                temMap == id \in DOMAIN mapeamentos
                temMeta == id \in DOMAIN metadados
                \* a KeyError on self.mapeamentos[id] or self.metadados[id] is
                \* caught after index.add has already run
                mapOk == mapa = Vazio \/ temMap
            IN  /\ indices' = Put(indices, id, novo)
                /\ mapeamentos' =
                       IF mapa # Vazio /\ temMap
                       THEN Put(mapeamentos, id, Desloca(mapeamentos[id], mapa, offset))
                       ELSE mapeamentos
                /\ metadados' =
                       IF mapOk /\ temMeta
                       THEN Put(metadados, id, [metadados[id] EXCEPT !.num_vetores = NTotal(novo)])
                       ELSE metadados
                /\ ult' = Chamada("adicionar_vetores", id, lote, mapOk /\ temMeta)

(* ---------------------------- salvar_indice --------------------------- *)
\* the write the file system refuses (open fails, no file is left), if any
Falhas == {"nenhuma", "indice", "mapeamento", "metadata"}

\* the content of the mapping file: str(idx) -> doc.dict()
MapeamentoSerializavel(m) ==
    [s \in {StrOfInt(k) : k \in DOMAIN m} |->
        Serializa(m[CHOOSE k \in DOMAIN m : StrOfInt(k) = s])]

\* json.dump(self.metadados[id].dict(), f): data_criacao and ultima_atualizacao
\* are datetime objects, which json cannot serialise; the TypeError is raised
\* after the file was opened for writing, and leaves it truncated
MetadataGravado(meta) == [tipo |-> "metadata", completo |-> FALSE, dados |-> Vazio]

\* a mutation of RetornoSalvar: a refused write is not reported
RetornoSalvar_Otimista(falha, temMeta) == ~temMeta

\* the value salvar_indice returns: True when no write raised
RetornoSalvar(falha, temMeta) == falha = "nenhuma" /\ ~temMeta

salvar_indice(id, falha) ==
    IF id \notin DOMAIN indices
    THEN /\ falha = "nenhuma"
         /\ ult' = Chamada("salvar_indice", id, falha, FALSE)
         /\ UNCHANGED <<indices, mapeamentos, metadados, disco, relogio, nSalvar, ultimoSalvo>>
         /\ UNCHANGED varsEmb
         /\ UNCHANGED varsExec
         /\ UNCHANGED varsSessao
    ELSE LET ts == Timestamp(relogio)
             temMap == id \in DOMAIN mapeamentos /\ mapeamentos[id] # Vazio
             temMeta == id \in DOMAIN metadados
             d1 == IF falha = "indice" THEN disco
                   ELSE Put(disco, NomeIndice(id, ts), [tipo |-> "index", idx |-> indices[id]])
             chegaMap == falha # "indice"
             d2 == IF chegaMap /\ temMap /\ falha # "mapeamento"
                   THEN Put(d1, NomeMapeamento(id, ts),
                            [tipo |-> "mapping", completo |-> TRUE,
                             dados |-> MapeamentoSerializavel(mapeamentos[id])])
                   ELSE d1
             chegaMeta == chegaMap /\ falha # "mapeamento"
             d3 == IF chegaMeta /\ temMeta /\ falha # "metadata"
                   THEN Put(d2, NomeMetadata(id, ts), MetadataGravado(metadados[id]))
                   ELSE d2
             ret == RetornoSalvar(falha, temMeta)
         IN  /\ nSalvar < MaxSalvar
             \* a failure is injected only at a write the call reaches
             /\ falha = "mapeamento" => temMap
             /\ falha = "metadata" => temMeta
             /\ nSalvar' = nSalvar + 1
             /\ disco' = d3
             /\ ult' = Chamada("salvar_indice", id, falha, ret)
             /\ ultimoSalvo' =
                    IF ret
                    THEN Put(ultimoSalvo, id,
                             [idx |-> indices[id],
                              map |-> IF id \in DOMAIN mapeamentos THEN mapeamentos[id] ELSE Vazio])
                    ELSE ultimoSalvo
             \* ultima_atualizacao, the one field the call sets, is not kept
             /\ UNCHANGED <<indices, mapeamentos, metadados, relogio>>
             /\ UNCHANGED varsEmb
             /\ UNCHANGED varsExec
             /\ UNCHANGED varsSessao

(* --------------------------- carregar_indice -------------------------- *)
\* the .index files listed for an id when no file name is given
ArquivosDe(d, id) == {f \in DOMAIN d : StartsWith(f, id \o Und) /\ EndsWith(f, ExtIndex)}

\* nome_arquivo after lines 98-107; None when the listing is empty
NomeEscolhido(d, id, nomeArg) ==
    IF nomeArg # None THEN nomeArg
    ELSE IF ArquivosDe(d, id) = {} THEN None
    ELSE MaiorNome(ArquivosDe(d, id))

\* partes[1].split('.')[0] if len(partes) > 1 else None
TimestampDe(nome) ==
    LET partes == Split(nome, 95)
    IN  IF Len(partes) > 1 THEN Split(partes[2], 46)[1] ELSE None

\* "if timestamp": None and "" are false
Verdadeiro(ts) == ts # None /\ ts # <<>>

\* {int(k): v for k, v in mapeamento_raw.items()}
MapeamentoLido(dados) ==
    [k \in {IntOfStr(s) : s \in DOMAIN dados} |->
        dados[CHOOSE s \in DOMAIN dados : IntOfStr(s) = k]]

\* the IndiceMetadata built when no metadata file is found
MetadataBasico(id, idx, map) ==
    [id |-> id, dimensao |-> idx.d, num_vetores |-> NTotal(idx),
     tem_mapeamento_ids |-> map # Vazio]

\* What one carregar_indice call does, read off the files d:
\*   etapa "nada"     nothing was assigned (no file listed, or read_index raised)
\*   etapa "parcial"  indices[id] and mapeamentos[id] were assigned, then a
\*                    json.load raised; metadados[id] was not assigned
\*   etapa "completo" the three tables were assigned and True is returned
Carga(d, id, nomeArg) ==
    LET nome == NomeEscolhido(d, id, nomeArg)
        ts == IF nome = None THEN None ELSE TimestampDe(nome)
        nomeMap == IF Verdadeiro(ts) THEN NomeMapeamento(id, ts) ELSE None
        nomeMeta == IF Verdadeiro(ts) THEN NomeMetadata(id, ts) ELSE None
        legivel == nome # None /\ nome \in DOMAIN d /\ d[nome].tipo = "index"
        idx == d[nome].idx
        temMap == nomeMap # None /\ nomeMap \in DOMAIN d
        mapOk == temMap => (d[nomeMap].tipo = "mapping" /\ d[nomeMap].completo)
        map == IF temMap /\ mapOk THEN MapeamentoLido(d[nomeMap].dados) ELSE Vazio
        temMeta == nomeMeta # None /\ nomeMeta \in DOMAIN d
        metaOk == temMeta => (d[nomeMeta].tipo = "metadata" /\ d[nomeMeta].completo)
    IN  IF ~legivel
        THEN [etapa |-> "nada", nome |-> nome, idx |-> Vazio, map |-> Vazio, meta |-> Vazio]
        ELSE IF ~(mapOk /\ metaOk)
        THEN [etapa |-> "parcial", nome |-> nome, idx |-> idx, map |-> map, meta |-> Vazio]
        ELSE [etapa |-> "completo", nome |-> nome, idx |-> idx, map |-> map,
              meta |-> IF temMeta THEN d[nomeMeta].dados ELSE MetadataBasico(id, idx, map)]

carregar_indice(id, nomeArg) ==
    LET r == Carga(disco, id, nomeArg)
    IN  /\ indices' = IF r.etapa = "nada" THEN indices ELSE Put(indices, id, r.idx)
        /\ mapeamentos' = IF r.etapa = "nada" THEN mapeamentos ELSE Put(mapeamentos, id, r.map)
        /\ metadados' = IF r.etapa = "completo" THEN Put(metadados, id, r.meta) ELSE metadados
        /\ ult' = Chamada("carregar_indice", id, nomeArg, r.etapa = "completo")
        /\ UNCHANGED <<disco, relogio, nSalvar, ultimoSalvo>>
        /\ UNCHANGED varsEmb
        /\ UNCHANGED varsExec
        /\ UNCHANGED varsSessao

(* --------------------------- remover_indice --------------------------- *)
remover_indice(id) ==
    /\ IF id \notin DOMAIN indices
       THEN /\ ult' = Chamada("remover_indice", id, None, FALSE)
            /\ UNCHANGED <<indices, mapeamentos, metadados>>
       ELSE /\ indices' = Del(indices, id)
            /\ mapeamentos' = Del(mapeamentos, id)
            /\ metadados' = Del(metadados, id)
            /\ ult' = Chamada("remover_indice", id, None, TRUE)
    /\ UNCHANGED <<disco, relogio, nSalvar, ultimoSalvo>>
    /\ UNCHANGED varsEmb
    /\ UNCHANGED varsExec
    /\ UNCHANGED varsSessao

(* ------------------------ a fresh FaissService ------------------------ *)
\* __init__ in a new process: empty tables; the files stay
novo_servico ==
    /\ indices' = Vazio
    /\ mapeamentos' = Vazio
    /\ metadados' = Vazio
    /\ inicializado' = FALSE
    /\ ult' = Chamada("novo_servico", None, None, TRUE)
    /\ UNCHANGED <<disco, relogio, nSalvar, ultimoSalvo, tarefas>>
    /\ UNCHANGED varsEmb
    /\ UNCHANGED varsSessao

\* one second of wall clock passes
passa_segundo ==
    /\ relogio < MaxClock
    /\ relogio' = relogio + 1
    /\ ult' = Chamada("passa_segundo", None, None, TRUE)
    /\ UNCHANGED <<indices, mapeamentos, metadados, disco, nSalvar, ultimoSalvo>>
    /\ UNCHANGED varsEmb
    /\ UNCHANGED varsExec
    /\ UNCHANGED varsSessao

\* the file names a caller passes to carregar_indice: None, or a snapshot of the id
NomesArg(id) == {None} \cup {NomeIndice(id, Timestamp(t)) : t \in 0..MaxClock}

Next ==
    \/ \E id \in Ids, d \in DimsDisco, tipo \in Tipos : criar_indice(id, d, tipo)
    \/ \E id \in Ids, lote \in LotesDisco, mapa \in MapArgsDisco :
          Cabe(id, lote, MaxVetores) /\ adicionar_vetores(id, lote, mapa)
    \/ \E id \in Ids, falha \in Falhas : salvar_indice(id, falha)
    \/ \E id \in Ids : \E nome \in NomesArg(id) : carregar_indice(id, nome)
    \/ \E id \in Ids : remover_indice(id)
    \/ novo_servico
    \/ passa_segundo

\* every operation of the service, with its files
Spec == Init /\ [][Next]_vars

NextAdd ==
    \/ \E id \in Ids, d \in Dims, tipo \in Tipos : criar_indice(id, d, tipo)
    \/ \E id \in Ids, lote \in Lotes, mapa \in MapArgs :
          Cabe(id, lote, MaxVetoresAdd) /\ adicionar_vetores(id, lote, mapa)
    \/ \E id \in Ids : remover_indice(id)
    \/ novo_servico

\* the operations that work in memory, with wider batches and mappings
SpecAdd == Init /\ [][NextAdd]_vars

(* ------------------------------ inicializar --------------------------- *)
\* the ids inicializar groups the .index files under: the part of the file
\* name before its first "_"; a name without "_" is left out
IndicesPorId(d) ==
    {Split(f, 95)[1] : f \in {g \in DOMAIN d : EndsWith(g, ExtIndex) /\ Len(Split(g, 95)) >= 2}}
ArquivosDoGrupo(d, id) ==
    {f \in DOMAIN d : EndsWith(f, ExtIndex) /\ Len(Split(f, 95)) >= 2 /\ Split(f, 95)[1] = id}

\* carregar_indice(indice_id, arquivo_mais_recente) for one group
CargaInicial(d, id) == Carga(d, id, MaiorNome(ArquivosDoGrupo(d, id)))

\* the loads of the groups write to different ids, so the order in which the
\* dict of groups is walked does not matter
inicializar ==
    /\ IF inicializado
       THEN UNCHANGED <<indices, mapeamentos, metadados>>
       ELSE LET G == IndicesPorId(disco)
                lidos == {g \in G : CargaInicial(disco, g).etapa # "nada"}
                completos == {g \in G : CargaInicial(disco, g).etapa = "completo"}
            IN  /\ indices' = [id \in (DOMAIN indices) \cup lidos |->
                       IF id \in lidos THEN CargaInicial(disco, id).idx ELSE indices[id]]
                /\ mapeamentos' = [id \in (DOMAIN mapeamentos) \cup lidos |->
                       IF id \in lidos THEN CargaInicial(disco, id).map ELSE mapeamentos[id]]
                /\ metadados' = [id \in (DOMAIN metadados) \cup completos |->
                       IF id \in completos THEN CargaInicial(disco, id).meta ELSE metadados[id]]
    /\ inicializado' = TRUE
    /\ ult' = Chamada("inicializar", None, None, ~inicializado)
    /\ UNCHANGED <<disco, relogio, nSalvar, ultimoSalvo, tarefas>>
    /\ UNCHANGED varsEmb
    /\ UNCHANGED varsSessao

\* the inputs of the runs of SpecCarga: one vector of either width, with no
\* mapping or with a local slot past the batch
LotesCarga == {Lote(<<Unit(1)>>), Lote(<<Unit(2)>>)}
MapArgsCarga == {Vazio, (1 :> DocObj("B"))}
FalhasCarga == {"nenhuma", "metadata"}

NextCarga ==
    \/ \E id \in Ids, d \in Dims, tipo \in Tipos : criar_indice(id, d, tipo)
    \/ \E id \in Ids, lote \in LotesCarga, mapa \in MapArgsCarga :
          Cabe(id, lote, MaxVetores) /\ adicionar_vetores(id, lote, mapa)
    \/ \E id \in Ids, falha \in FalhasCarga : salvar_indice(id, falha)
    \/ \E id \in Ids : carregar_indice(id, None)
    \/ novo_servico
    \/ inicializar

\* indexes of two widths persisted, loaded and adopted at start-up
SpecCarga == Init /\ [][NextCarga]_vars

(* ------------------------ buscar, buscar_documentos -------------------- *)
\* largest k of a search, and largest ntotal, in the runs of SpecBusca
MaxK == 3
MaxVetoresBusca == 2

\* a 1-D query vector, which buscar wraps into a one-row matrix
Consulta(v) == [forma2D |-> FALSE, vet |-> v]

\* squared L2 distance, the metric of IndexFlatL2
RECURSIVE Dist2(_, _)
Dist2(u, v) ==
    IF u = <<>> THEN 0
    ELSE (u[1] - v[1]) * (u[1] - v[1]) + Dist2(Tail(u), Tail(v))

\* the distance FAISS reports beside the label -1 when fewer than k vectors
\* exist (FLT_MAX): larger than every distance between vectors of the model
DistMax == 1000000

\* slot s of the index is vecs[s + 1]
DistSlot(idx, q, s) == Dist2(idx.vecs[s + 1], q)

\* the nearest slot of S; equal distances are listed by ascending slot
MaisPerto(idx, q, S) ==
    CHOOSE s \in S : \A t \in S :
        \/ DistSlot(idx, q, s) < DistSlot(idx, q, t)
        \/ (DistSlot(idx, q, s) = DistSlot(idx, q, t) /\ s <= t)

RECURSIVE Ordenados(_, _, _)
Ordenados(idx, q, S) ==
    IF S = {} THEN <<>>
    ELSE LET m == MaisPerto(idx, q, S)
         IN  <<m>> \o Ordenados(idx, q, S \ {m})

\* a mutation of Search: the labels come back in slot order
Search_SemOrdem(idx, q, k) ==
    [I |-> [j \in 1..k |-> IF j <= NTotal(idx) THEN j - 1 ELSE 0 - 1],
     D |-> [j \in 1..k |-> IF j <= NTotal(idx) THEN DistSlot(idx, q, j - 1) ELSE DistMax]]

\* index.search(q, k) for one query row: k labels and k distances, the
\* positions past ntotal filled with -1 and DistMax
Search(idx, q, k) ==
    LET ord == Ordenados(idx, q, 0..(NTotal(idx) - 1))
    IN  [I |-> [j \in 1..k |-> IF j <= Len(ord) THEN ord[j] ELSE 0 - 1],
         D |-> [j \in 1..k |-> IF j <= Len(ord) THEN DistSlot(idx, q, ord[j]) ELSE DistMax]]

\* what buscar returns when it returns nothing
SemResultado == [I |-> <<>>, D |-> <<>>]

\* the pair (indices, scores) of buscar
Buscar(id, consulta, k) ==
    IF id \notin DOMAIN indices THEN SemResultado
    ELSE LET q2 == IF consulta.forma2D THEN consulta ELSE Lote(<<consulta.vet>>)
         IN  \* a wrong width raises ValueError, k < 1 makes search raise
             IF Colunas(q2) # indices[id].d \/ k < 1 THEN SemResultado
             ELSE Search(indices[id], q2.vet[1], k)

\* 1.0 - score / 2.0, kept as the integer 2 - score (twice the similarity)
Similaridade2(score) == 2 - score

\* a mutation of TemEntrada: the placeholder label is looked up like a slot
TemEntrada_SemFiltro(m, idx) == TRUE

\* "idx != -1 and idx in self.mapeamentos[indice_id]"
TemEntrada(m, idx) == idx # (0 - 1) /\ idx \in DOMAIN m

\* the pairs (doc, similarity) of the labels that have a mapping entry; a
\* lookup of a label without entry raises KeyError and the search returns []
RECURSIVE Resolve(_, _, _)
Resolve(m, I, D) ==
    IF I = <<>> THEN <<>>
    ELSE IF TemEntrada(m, I[1])
    THEN <<[doc |-> m[I[1]], sim2 |-> Similaridade2(D[1])]>> \o Resolve(m, Tail(I), Tail(D))
    ELSE Resolve(m, Tail(I), Tail(D))

\* every label a lookup is tried for has an entry
Resolvivel(m, I) == \A j \in 1..Len(I) : TemEntrada(m, I[j]) => I[j] \in DOMAIN m

BuscarDocumentos(id, consulta, k) ==
    IF id \notin DOMAIN indices \/ id \notin DOMAIN mapeamentos \/ mapeamentos[id] = Vazio
    THEN <<>>
    ELSE LET r == Buscar(id, consulta, k)
         IN  IF Resolvivel(mapeamentos[id], r.I)
             THEN Resolve(mapeamentos[id], r.I, r.D)
             ELSE <<>>

buscar(id, consulta, k) ==
    /\ ult' = Chamada("buscar", id, [q |-> consulta, k |-> k], Buscar(id, consulta, k))
    /\ UNCHANGED <<indices, mapeamentos, metadados, disco, relogio, nSalvar, ultimoSalvo>>
    /\ UNCHANGED varsEmb
    /\ UNCHANGED varsExec
    /\ UNCHANGED varsSessao

buscar_documentos(id, consulta, k) ==
    /\ ult' = Chamada("buscar_documentos", id, [q |-> consulta, k |-> k],
                      BuscarDocumentos(id, consulta, k))
    /\ UNCHANGED <<indices, mapeamentos, metadados, disco, relogio, nSalvar, ultimoSalvo>>
    /\ UNCHANGED varsEmb
    /\ UNCHANGED varsExec
    /\ UNCHANGED varsSessao

\* the inputs of the runs of SpecBusca: one-dimensional vectors, queries as a
\* 1-D vector, as a one-row matrix, and of the wrong width
LotesBusca == {Lote(<<Zero(1)>>), Lote(<<Unit(1)>>), Lote(<<Zero(1), Unit(1)>>)}
Consultas == {Consulta(Zero(1)), Consulta(Unit(1)), Lote(<<Unit(1)>>), Consulta(Zero(2))}

NextBusca ==
    \/ \E d \in DimsDisco, tipo \in Tipos : criar_indice(IdA, d, tipo)
    \/ \E lote \in LotesBusca, mapa \in MapArgs :
          Cabe(IdA, lote, MaxVetoresBusca) /\ adicionar_vetores(IdA, lote, mapa)
    \/ \E id \in Ids, c \in Consultas, k \in 0..MaxK : buscar(id, c, k)
    \/ \E id \in Ids, c \in Consultas, k \in 0..MaxK : buscar_documentos(id, c, k)
    \/ remover_indice(IdA)

\* the operations that search, on one index held in memory
SpecBusca == Init /\ [][NextBusca]_vars

(* -------------------------- obter_info_indice -------------------------- *)
\* None, the answer for an id that is not in memory
NenhumaInfo == [id |-> None]

\* a mutation of ObterInfoIndice: an id that is not in memory is described
\* with the defaults of dict.get
ObterInfoIndice_SemGuarda(id) ==
    IF id \notin DOMAIN indices
    THEN [id |-> id, tipo |-> "None", dimensao |-> 0, num_vetores |-> 0,
          tem_mapeamento |-> FALSE, num_documentos |-> 0]
    ELSE [id |-> id, tipo |-> indices[id].tipo, dimensao |-> indices[id].d,
          num_vetores |-> NTotal(indices[id]),
          tem_mapeamento |-> id \in DOMAIN mapeamentos /\ mapeamentos[id] # Vazio,
          num_documentos |-> IF id \in DOMAIN mapeamentos
                             THEN Cardinality(DOMAIN mapeamentos[id]) ELSE 0]

\* the dict obter_info_indice returns: the facts read off the index and the
\* mapping, then info.update(metadata.dict()), whose id, dimensao and
\* num_vetores replace the ones read off the index
ObterInfoIndice(id) ==
    IF id \notin DOMAIN indices THEN NenhumaInfo
    ELSE LET base == [id |-> id, tipo |-> indices[id].tipo, dimensao |-> indices[id].d,
                      num_vetores |-> NTotal(indices[id]),
                      tem_mapeamento |-> id \in DOMAIN mapeamentos /\ mapeamentos[id] # Vazio,
                      num_documentos |-> IF id \in DOMAIN mapeamentos
                                         THEN Cardinality(DOMAIN mapeamentos[id]) ELSE 0]
         IN  IF id \in DOMAIN metadados
             THEN [k \in (DOMAIN base) \cup (DOMAIN metadados[id]) |->
                      IF k \in DOMAIN metadados[id] THEN metadados[id][k] ELSE base[k]]
             ELSE base

obter_info_indice(id) ==
    /\ ult' = Chamada("obter_info_indice", id, None, ObterInfoIndice(id))
    /\ UNCHANGED <<indices, mapeamentos, metadados, disco, relogio, nSalvar, ultimoSalvo>>
    /\ UNCHANGED varsEmb
    /\ UNCHANGED varsExec
    /\ UNCHANGED varsSessao

\* every operation that takes an id, on ids in memory and not in memory
NextOps ==
    \/ \E id \in Ids, d \in DimsDisco, tipo \in Tipos : criar_indice(id, d, tipo)
    \/ \E id \in Ids, mapa \in MapArgsDisco :
          Cabe(id, Lote(<<Unit(1)>>), MaxVetores)
              /\ adicionar_vetores(id, Lote(<<Unit(1)>>), mapa)
    \/ \E id \in Ids, falha \in Falhas : salvar_indice(id, falha)
    \/ \E id \in Ids, k \in 1..MaxK : buscar(id, Consulta(Unit(1)), k)
    \/ \E id \in Ids, k \in 1..MaxK : buscar_documentos(id, Consulta(Unit(1)), k)
    \/ \E id \in Ids : obter_info_indice(id)
    \/ \E id \in Ids : remover_indice(id)

SpecOps == Init /\ [][NextOps]_vars

(* ------------- coroutines on the event loop of one process ------------- *)
\* The service methods are coroutines run by one asyncio event loop: a
\* coroutine keeps the loop from the line it is resumed at until it awaits
\* something that is not ready, or returns.  No line of adicionar_vetores
\* awaits; buscar_documentos awaits self.buscar, which awaits nothing and so
\* runs to its return inside the caller.

\* a mutation of Suspende: the loop may switch coroutines after every line
Suspende_EmCadaLinha(op, pc) == TRUE

\* whether a coroutine of op gives the loop back before the line at pc
Suspende(op, pc) == FALSE

\* the loop is free, or is running the coroutine t
PodeExecutar(t) == tarefas.exec = t \/ tarefas.exec = "nenhuma"
\* who holds the loop after t moved on to the line pc of op
Depois(t, op, pc) == IF pc = "inativa" \/ Suspende(op, pc) THEN "nenhuma" ELSE t

\* the lines of adicionar_vetores between index.add and the last update
Meio == {"mapeamento", "metadados"}

\* a caller's task that will call adicionar_vetores becomes ready
agenda_add(id, lote, mapa) ==
    /\ tarefas.add.pc = "inativa"
    /\ tarefas' = [tarefas EXCEPT !.add =
           [pc |-> "pronta", id |-> id, lote |-> lote, mapa |-> mapa, offset |-> 0]]
    /\ UNCHANGED <<indices, mapeamentos, metadados, disco, relogio, nSalvar, ult,
                   ultimoSalvo, inicializado>>
    /\ UNCHANGED varsEmb
    /\ UNCHANGED varsSessao

\* lines 251-265: the guard, the two checks, offset = ntotal
add_verifica ==
    LET t == tarefas.add
        ok == t.id \in DOMAIN indices /\ DimensaoConfere(t.lote, indices[t.id])
        pc == IF ok THEN "add" ELSE "inativa"
    IN  /\ t.pc = "pronta"
        /\ PodeExecutar("add")
        /\ (t.id \in DOMAIN indices /\ t.lote.forma2D) =>
               NTotal(indices[t.id]) + Linhas(t.lote) <= MaxVetoresBusca
        /\ tarefas' = [tarefas EXCEPT
               !.exec = Depois("add", "adicionar_vetores", pc),
               !.add = IF ok THEN [t EXCEPT !.pc = pc, !.offset = NTotal(indices[t.id])]
                       ELSE TarefaAdd]
        /\ ult' = IF ok THEN ult ELSE Chamada("adicionar_vetores", t.id, t.lote, FALSE)
        /\ UNCHANGED <<indices, mapeamentos, metadados, disco, relogio, nSalvar,
                       ultimoSalvo, inicializado>>
        /\ UNCHANGED varsEmb
        /\ UNCHANGED varsSessao

\* line 268: self.indices[indice_id].add(vetores); a KeyError on
\* self.indices[indice_id] ends the call with False
add_index ==
    LET t == tarefas.add
        ok == t.id \in DOMAIN indices
        pc == IF ok THEN "mapeamento" ELSE "inativa"
    IN  /\ t.pc = "add"
        /\ PodeExecutar("add")
        /\ indices' =
               IF ok
               THEN Put(indices, t.id, [indices[t.id] EXCEPT !.vecs = @ \o t.lote.vet])
               ELSE indices
        /\ tarefas' = [tarefas EXCEPT
               !.exec = Depois("add", "adicionar_vetores", pc),
               !.add = IF ok THEN [t EXCEPT !.pc = pc] ELSE TarefaAdd]
        /\ ult' = IF ok THEN ult ELSE Chamada("adicionar_vetores", t.id, t.lote, FALSE)
        /\ UNCHANGED <<mapeamentos, metadados, disco, relogio, nSalvar,
                       ultimoSalvo, inicializado>>
        /\ UNCHANGED varsEmb
        /\ UNCHANGED varsSessao

\* lines 271-274: the entries of the batch, under offset + local slot; a
\* KeyError on self.mapeamentos[indice_id] ends the call with False
add_mapeamento ==
    LET t == tarefas.add
        ok == t.mapa = Vazio \/ t.id \in DOMAIN mapeamentos
        pc == IF ok THEN "metadados" ELSE "inativa"
    IN  /\ t.pc = "mapeamento"
        /\ PodeExecutar("add")
        /\ mapeamentos' =
               IF t.mapa # Vazio /\ ok
               THEN Put(mapeamentos, t.id, Desloca(mapeamentos[t.id], t.mapa, t.offset))
               ELSE mapeamentos
        /\ tarefas' = [tarefas EXCEPT
               !.exec = Depois("add", "adicionar_vetores", pc),
               !.add = IF ok THEN [t EXCEPT !.pc = pc] ELSE TarefaAdd]
        /\ ult' = IF ok THEN ult ELSE Chamada("adicionar_vetores", t.id, t.lote, FALSE)
        /\ UNCHANGED <<indices, metadados, disco, relogio, nSalvar, ultimoSalvo, inicializado>>
        /\ UNCHANGED varsEmb
        /\ UNCHANGED varsSessao

\* lines 277-281: num_vetores = ntotal, return True; a KeyError on
\* self.metadados[indice_id] or self.indices[indice_id] ends the call with
\* False
add_metadados ==
    LET t == tarefas.add
        ok == t.id \in DOMAIN metadados /\ t.id \in DOMAIN indices
    IN  /\ t.pc = "metadados"
        /\ PodeExecutar("add")
        /\ metadados' =
               IF ok
               THEN Put(metadados, t.id,
                        [metadados[t.id] EXCEPT !.num_vetores = NTotal(indices[t.id])])
               ELSE metadados
        /\ tarefas' = [tarefas EXCEPT
               !.exec = Depois("add", "adicionar_vetores", "inativa"),
               !.add = TarefaAdd]
        /\ ult' = Chamada("adicionar_vetores", t.id, t.lote, ok)
        /\ UNCHANGED <<indices, mapeamentos, disco, relogio, nSalvar, ultimoSalvo, inicializado>>
        /\ UNCHANGED varsEmb
        /\ UNCHANGED varsSessao

\* a caller's task that will call buscar_documentos becomes ready
agenda_busca(id, consulta, k) ==
    /\ tarefas.busca.pc = "inativa"
    /\ tarefas' = [tarefas EXCEPT !.busca =
           [TarefaBusca EXCEPT !.pc = "pronta", !.id = id, !.q = consulta, !.k = k]]
    /\ UNCHANGED <<indices, mapeamentos, metadados, disco, relogio, nSalvar, ult,
                   ultimoSalvo, inicializado>>
    /\ UNCHANGED varsEmb
    /\ UNCHANGED varsSessao

\* line 403: the index and a non-empty mapping must be in memory
busca_verifica ==
    LET t == tarefas.busca
        ok == /\ t.id \in DOMAIN indices
              /\ t.id \in DOMAIN mapeamentos
              /\ mapeamentos[t.id] # Vazio
        pc == IF ok THEN "buscar" ELSE "inativa"
    IN  /\ t.pc = "pronta"
        /\ PodeExecutar("busca")
        /\ tarefas' = [tarefas EXCEPT
               !.exec = Depois("busca", "buscar_documentos", pc),
               !.busca = IF ok THEN [t EXCEPT !.pc = pc] ELSE TarefaBusca]
        /\ ult' = IF ok THEN ult
                  ELSE Chamada("buscar_documentos", t.id, [q |-> t.q, k |-> t.k], <<>>)
        /\ UNCHANGED <<indices, mapeamentos, metadados, disco, relogio, nSalvar,
                       ultimoSalvo, inicializado>>
        /\ UNCHANGED varsEmb
        /\ UNCHANGED varsSessao

\* line 409: indices, scores = await self.buscar(indice_id, vetor_consulta, k)
busca_buscar ==
    LET t == tarefas.busca
        r == Buscar(t.id, t.q, t.k)
    IN  /\ t.pc = "buscar"
        /\ PodeExecutar("busca")
        /\ tarefas' = [tarefas EXCEPT
               !.exec = Depois("busca", "buscar_documentos", "mapear"),
               !.busca = [t EXCEPT !.pc = "mapear", !.I = r.I, !.D = r.D]]
        /\ UNCHANGED <<indices, mapeamentos, metadados, disco, relogio, nSalvar, ult,
                       ultimoSalvo, inicializado>>
        /\ UNCHANGED varsEmb
        /\ UNCHANGED varsSessao

\* lines 412-420: the documents of the labels found; a KeyError on
\* self.mapeamentos[indice_id] ends the call with []
busca_mapear ==
    LET t == tarefas.busca
        res == IF t.id \in DOMAIN mapeamentos
               THEN Resolve(mapeamentos[t.id], t.I, t.D)
               ELSE <<>>
    IN  /\ t.pc = "mapear"
        /\ PodeExecutar("busca")
        /\ tarefas' = [tarefas EXCEPT
               !.exec = Depois("busca", "buscar_documentos", "inativa"),
               !.busca = TarefaBusca]
        /\ ult' = Chamada("buscar_documentos", t.id, [q |-> t.q, k |-> t.k], res)
        /\ UNCHANGED <<indices, mapeamentos, metadados, disco, relogio, nSalvar,
                       ultimoSalvo, inicializado>>
        /\ UNCHANGED varsEmb
        /\ UNCHANGED varsSessao

NextCorrotinas ==
    \/ tarefas.exec = "nenhuma" /\ criar_indice(IdA, 1, "flat")
    \/ tarefas.exec = "nenhuma" /\ remover_indice(IdA)
    \/ \E id \in Ids, lote \in LotesCarga, mapa \in MapArgsDisco : agenda_add(id, lote, mapa)
    \/ add_verifica
    \/ add_index
    \/ add_mapeamento
    \/ add_metadados
    \/ \E id \in Ids, k \in 1..MaxK : agenda_busca(id, Consulta(Unit(1)), k)
    \/ busca_verifica
    \/ busca_buscar
    \/ busca_mapear

\* an add and a document search in flight on the same event loop
SpecCorrotinas == Init /\ [][NextCorrotinas]_vars

(* ======================== EmbeddingsService ============================ *)
\* calls to the provider the model lets happen
MaxChamadas == 3
\* longest list of texts of one gerar_embeddings_batch call
MaxTextos == 2

\* settings.DIMENSAO_EMBEDDINGS and settings.MODELO_EMBEDDINGS
DimensaoEmb == 2
Modelo == "m"

\* the texts callers embed
Textos == {"t1", "t2"}

\* hashlib.md5(texto.encode()).hexdigest(): one digest per text (no two texts
\* of the model collide), and the key f"{texto_hash}_{modelo}"
Md5(texto) == <<"md5", texto>>
ChaveCache(texto) == <<Md5(texto), Modelo>>

\* the vectors the provider answers with
VetoresProv == {<<1, 0>>, <<0, 1>>}

\* a mutation of VetorDeFalha: no vector at all
VetorDeFalha_Vazio == <<>>

\* np.zeros(self.dimensao_embeddings)
VetorDeFalha == Zero(DimensaoEmb)

\* what client.embeddings.create does: it raises, or it answers with
\* response.data, a list of vectors (as many as texts, fewer, or more)
Falha == [ok |-> FALSE, data |-> <<>>]
Resposta(dados) == [ok |-> TRUE, data |-> dados]
Dados(n) == UNION {[1..m -> VetoresProv] : m \in 0..n}
Respostas(n) == {Falha} \cup {Resposta(d) : d \in Dados(n)}

\* salvar_cache: the cache written to embeddings_cache_<timestamp>.json;
\* an error of the write is logged and the call goes on
SalvarCache(arquivos, cache, falhaDisco) ==
    IF falhaDisco THEN arquivos ELSE Put(arquivos, Timestamp(relogio), cache)

\* "if len(self.cache_embeddings) % 10 == 0"
PeriodoSalvar == 10

\* ---- gerar_embedding ----
\* the vector returned, the cache after the call, and whether the provider
\* was called
\* a mutation of CacheNaFalha: the zeros are stored under the key
CacheNaFalha_GuardaZeros(cache, chave) == Put(cache, chave, Zero(DimensaoEmb))

\* the cache after the except branch of gerar_embedding (170-173), which
\* returns the zeros and assigns nothing
CacheNaFalha(cache, chave) == cache

GerarEmbedding(cache, texto, resp) ==
    LET chave == ChaveCache(texto)
    IN  IF chave \in DOMAIN cache
        THEN [vetor |-> cache[chave], cache |-> cache, chamou |-> 0, novo |-> FALSE]
        ELSE IF ~resp.ok \/ resp.data = <<>>
        THEN \* create raised, or response.data[0] raised IndexError
             [vetor |-> VetorDeFalha, cache |-> CacheNaFalha(cache, chave), chamou |-> 1,
              novo |-> FALSE]
        ELSE [vetor |-> resp.data[1], cache |-> Put(cache, chave, resp.data[1]),
              chamou |-> 1, novo |-> TRUE]

\* a mutation of VetorRetornado: the error of the write reaches the except
\* branch of gerar_embedding
VetorRetornado_FalhaPropaga(vetor, falhaDisco) ==
    IF falhaDisco THEN VetorDeFalha ELSE vetor

\* what gerar_embedding returns after "await self.salvar_cache()":
\* salvar_cache catches the error of its write, so line 168 is reached
VetorRetornado(vetor, falhaDisco) == vetor

gerar_embedding(texto, resp, falhaDisco) ==
    LET r == GerarEmbedding(cache_embeddings, texto, resp)
        salva == r.novo /\ Cardinality(DOMAIN r.cache) % PeriodoSalvar = 0
    IN  /\ chamadas + r.chamou <= MaxChamadas
        \* inputs that are not read are fixed
        /\ r.chamou = 0 => resp = Falha
        /\ ~salva => ~falhaDisco
        /\ cache_embeddings' = r.cache
        /\ chamadas' = chamadas + r.chamou
        /\ disco_cache' = IF salva THEN SalvarCache(disco_cache, r.cache, falhaDisco)
                          ELSE disco_cache
        /\ ult' = Chamada("gerar_embedding", None, [texto |-> texto, resp |-> resp],
                          [vetor |-> VetorRetornado(r.vetor, falhaDisco),
                           chamou |-> r.chamou])
        /\ UNCHANGED <<indices, mapeamentos, metadados, disco, relogio, nSalvar, ultimoSalvo>>
        /\ UNCHANGED <<index, id_para_documento, indice_metadata>>
        /\ UNCHANGED varsExec
        /\ UNCHANGED varsSessao

\* ---- gerar_embeddings_batch ----
\* indices_para_processar: the positions whose key is not in the cache
RECURSIVE Faltantes(_, _, _)
Faltantes(cache, textos, i) ==
    IF i > Len(textos) THEN <<>>
    ELSE IF ChaveCache(textos[i]) \in DOMAIN cache
    THEN Faltantes(cache, textos, i + 1)
    ELSE <<i>> \o Faltantes(cache, textos, i + 1)

\* the first loop: the cached vector, or None for a position to process
Reservados(cache, textos) ==
    [i \in 1..Len(textos) |->
        IF ChaveCache(textos[i]) \in DOMAIN cache THEN cache[ChaveCache(textos[i])]
        ELSE None]

\* the loop over response.data, run for the first n items: the result list
\* and the cache
RECURSIVE Processa(_, _, _, _, _, _)
Processa(embeddings, cache, textos, idxs, dados, n) ==
    IF n = 0 THEN [embeddings |-> embeddings, cache |-> cache]
    ELSE LET p == Processa(embeddings, cache, textos, idxs, dados, n - 1)
         IN  [embeddings |-> [p.embeddings EXCEPT ![idxs[n]] = dados[n]],
              cache |-> Put(p.cache, ChaveCache(textos[idxs[n]]), dados[n])]

\* "if embeddings[idx] is None: embeddings[idx] = np.zeros(...)"
PreencheZeros(embeddings) ==
    [i \in 1..Len(embeddings) |-> IF embeddings[i] = None THEN VetorDeFalha ELSE embeddings[i]]

GerarEmbeddingsBatch(cache, textos, resp) ==
    LET idxs == Faltantes(cache, textos, 1)
        ini == Reservados(cache, textos)
    IN  IF idxs = <<>>
        THEN [vetores |-> ini, cache |-> cache, chamou |-> 0, salva |-> FALSE]
        ELSE IF ~resp.ok
        THEN [vetores |-> PreencheZeros(ini), cache |-> cache, chamou |-> 1, salva |-> FALSE]
        ELSE IF Len(resp.data) > Len(idxs)
        THEN \* indices_para_processar[i] raises IndexError after every
             \* position was filled
             LET p == Processa(ini, cache, textos, idxs, resp.data, Len(idxs))
             IN  [vetores |-> PreencheZeros(p.embeddings), cache |-> p.cache,
                  chamou |-> 1, salva |-> FALSE]
        ELSE LET p == Processa(ini, cache, textos, idxs, resp.data, Len(resp.data))
             IN  [vetores |-> p.embeddings, cache |-> p.cache, chamou |-> 1, salva |-> TRUE]

gerar_embeddings_batch(textos, resp, falhaDisco) ==
    LET r == GerarEmbeddingsBatch(cache_embeddings, textos, resp)
    IN  /\ chamadas + r.chamou <= MaxChamadas
        \* inputs that are not read are fixed
        /\ r.chamou = 0 => resp = Falha
        /\ ~r.salva => ~falhaDisco
        /\ cache_embeddings' = r.cache
        /\ chamadas' = chamadas + r.chamou
        /\ disco_cache' = IF r.salva THEN SalvarCache(disco_cache, r.cache, falhaDisco)
                          ELSE disco_cache
        /\ ult' = Chamada("gerar_embeddings_batch", None, [textos |-> textos, resp |-> resp],
                          [vetores |-> r.vetores, chamou |-> r.chamou])
        /\ UNCHANGED <<indices, mapeamentos, metadados, disco, relogio, nSalvar, ultimoSalvo>>
        /\ UNCHANGED <<index, id_para_documento, indice_metadata>>
        /\ UNCHANGED varsExec
        /\ UNCHANGED varsSessao

\* the lists of texts of a batch call
ListasDeTextos == UNION {[1..n -> Textos] : n \in 0..MaxTextos}

NextEmb ==
    \/ \E t \in Textos, resp \in Respostas(1), f \in BOOLEAN : gerar_embedding(t, resp, f)
    \/ \E ts \in ListasDeTextos, resp \in Respostas(MaxTextos + 1), f \in BOOLEAN :
          gerar_embeddings_batch(ts, resp, f)
    \/ passa_segundo

\* the calls that embed texts, with the cache and the provider
SpecEmb == Init /\ [][NextEmb]_vars

\* ---- the cadence of salvar_cache ----
\* the texts of the runs of SpecCadencia, embedded in this order: a call
\* takes texts already embedded or the next ones of the list
TextosEmOrdem == <<"t1", "t2", "t3", "t4", "t5", "t6", "t7", "t8", "t9", "t10", "t11">>
\* lengths of the batches of new texts
TamanhosDeLote == {1, 9, 10}

\* the next m texts that are not in the cache
Proximos(cache, m) ==
    LET n == Cardinality(DOMAIN cache)
    IN  SubSeq(TextosEmOrdem, n + 1, n + m)

\* the provider answers with j vectors
RespostaDe(j) == Resposta([i \in 1..j |-> <<1, 0>>])

\* the keys of the cache that no file of the cache directory holds
NaoSalvos(cache, arquivos) ==
    {k \in DOMAIN cache : \A f \in DOMAIN arquivos : k \notin DOMAIN arquivos[f]}

NextCadencia ==
    \/ \E m \in 0..1, resp \in {Falha, RespostaDe(1)} :
          /\ Cardinality(DOMAIN cache_embeddings) + m <= Len(TextosEmOrdem)
          /\ Cardinality(DOMAIN cache_embeddings) + m >= 1
          /\ gerar_embedding(TextosEmOrdem[Cardinality(DOMAIN cache_embeddings) + m],
                             resp, FALSE)
    \/ \E m \in TamanhosDeLote, j \in {0 - 1, 0, 1} :
          /\ Cardinality(DOMAIN cache_embeddings) + m <= Len(TextosEmOrdem)
          /\ gerar_embeddings_batch(Proximos(cache_embeddings, m), RespostaDe(m + j), FALSE)
    \/ \E m \in TamanhosDeLote :
          /\ Cardinality(DOMAIN cache_embeddings) + m <= Len(TextosEmOrdem)
          /\ gerar_embeddings_batch(Proximos(cache_embeddings, m), Falha, FALSE)
    \/ passa_segundo

\* texts embedded one after the other, with every write of the cache
\* directory succeeding
SpecCadencia == Init /\ [][NextCadencia]_vars

\* ---- carregar_cache ----
\* the orders in which os.listdir may give the files of S
Ordens(S) ==
    {o \in [1..Cardinality(S) -> S] : \A i, j \in 1..Cardinality(S) : o[i] = o[j] => i = j}

\* the loop over arquivos_cache, for the files still to read: every entry of
\* a file is assigned to its key, over what the key held; a file that cannot
\* be read is logged and skipped
RECURSIVE CarregarCache(_, _, _, _)
CarregarCache(cache, arquivos, ordem, ilegiveis) ==
    IF ordem = <<>> THEN cache
    ELSE LET f == ordem[1]
             lido == IF f \in ilegiveis THEN cache
                     ELSE [k \in (DOMAIN cache) \cup (DOMAIN arquivos[f]) |->
                              IF k \in DOMAIN arquivos[f] THEN arquivos[f][k] ELSE cache[k]]
         IN  CarregarCache(lido, arquivos, Tail(ordem), ilegiveis)

\* falhaListar: os.listdir raises and nothing is read
carregar_cache(ordem, ilegiveis, falhaListar) ==
    /\ cache_embeddings' =
           IF falhaListar THEN cache_embeddings
           ELSE CarregarCache(cache_embeddings, disco_cache, ordem, ilegiveis)
    /\ ult' = Chamada("carregar_cache", None,
                      [ordem |-> ordem, ilegiveis |-> ilegiveis, falhaListar |-> falhaListar],
                      None)
    /\ UNCHANGED <<indices, mapeamentos, metadados, disco, relogio, nSalvar, ultimoSalvo>>
    /\ UNCHANGED <<index, id_para_documento, indice_metadata, disco_cache, chamadas>>
    /\ UNCHANGED varsExec
    /\ UNCHANGED varsSessao

\* __init__ of the EmbeddingsService in a new process: the files stay
novo_servico_emb ==
    /\ cache_embeddings' = Vazio
    /\ index' = SemIndice
    /\ id_para_documento' = Vazio
    /\ indice_metadata' = SemMetadata
    /\ ult' = Chamada("novo_servico_emb", None, None, TRUE)
    /\ UNCHANGED <<indices, mapeamentos, metadados, disco, relogio, nSalvar, ultimoSalvo>>
    /\ UNCHANGED <<disco_cache, chamadas>>
    /\ UNCHANGED varsExec
    /\ UNCHANGED varsSessao

\* the provider answers with j vectors, all v
RespostaCom(j, v) == Resposta([i \in 1..j |-> v])

NextCache ==
    \/ \E m \in 0..1, resp \in {Falha} \cup {RespostaCom(1, v) : v \in VetoresProv},
          f \in BOOLEAN :
          /\ Cardinality(DOMAIN cache_embeddings) + m <= Len(TextosEmOrdem)
          /\ Cardinality(DOMAIN cache_embeddings) + m >= 1
          /\ gerar_embedding(TextosEmOrdem[Cardinality(DOMAIN cache_embeddings) + m],
                             resp, f)
    \/ \E m \in TamanhosDeLote, v \in VetoresProv, f \in BOOLEAN :
          /\ Cardinality(DOMAIN cache_embeddings) + m <= Len(TextosEmOrdem)
          /\ gerar_embeddings_batch(Proximos(cache_embeddings, m), RespostaCom(m, v), f)
    \/ \E S \in SUBSET (DOMAIN disco_cache), falhaListar \in BOOLEAN :
          \E ordem \in Ordens(DOMAIN disco_cache) :
              /\ falhaListar => (S = {} /\ ordem = CHOOSE o \in Ordens(DOMAIN disco_cache) : TRUE)
              /\ carregar_cache(ordem, S, falhaListar)
    \/ novo_servico_emb
    \/ passa_segundo

\* the cache of embeddings and its files, over several processes and with
\* reads and writes that fail
SpecCache == Init /\ [][NextCache]_vars

(* ------------- EmbeddingsService: the index and its search ------------- *)
\* construir_indice_faiss calls the model lets happen, and how many of them
\* in the runs of SpecEmbBusca
MaxConstruir == 2
MaxConstruirBusca == 1

\* documents with the fields cliente_id (cid) and tipo: a pydantic object
\* (DocumentoBase and its subclasses) or the dict json.load gives back
Documento(forma, c, t) == [forma |-> forma, cid |-> c, tipo |-> t]
\* doc.dict() if hasattr(doc, "dict") else doc
SerializaDoc(doc) == [doc EXCEPT !.forma = "dict"]

\* the fields of a document, by name
Campos == {"cid", "tipo"}
Campo(doc, chave) == IF chave = "cid" THEN doc.cid ELSE doc.tipo

\* hasattr(doc, chave): the fields and methods of a pydantic object, the
\* methods of a dict
TemAtributo(doc, chave) ==
    IF doc.forma = "obj" THEN chave \in Campos \cup {"dict"}
    ELSE chave \in {"items"}
\* getattr(doc, chave): a field value, or a bound method
Atributo(doc, chave) == IF chave \in Campos THEN Campo(doc, chave) ELSE "<metodo>"
\* "chave in doc": the keys of a dict; iterating a pydantic object yields
\* (name, value) pairs, none of which is equal to a str
Contem(doc, chave) == doc.forma = "dict" /\ chave \in Campos

\* a mutation of Atende: a key the document lacks does not exclude it
Atende_ChaveAusenteAceita(doc, filtro) ==
    \A chave \in DOMAIN filtro :
        IF TemAtributo(doc, chave) THEN Atributo(doc, chave) = filtro[chave]
        ELSE IF Contem(doc, chave) THEN Campo(doc, chave) = filtro[chave]
        ELSE TRUE

\* a mutation of Atende: only pydantic objects can pass
Atende_SoObjetos(doc, filtro) ==
    /\ doc.forma = "obj"
    /\ \A chave \in DOMAIN filtro :
          TemAtributo(doc, chave) /\ Atributo(doc, chave) = filtro[chave]

\* atende_filtro after the loop over filtro.items()
Atende(doc, filtro) ==
    \A chave \in DOMAIN filtro :
        IF TemAtributo(doc, chave) THEN Atributo(doc, chave) = filtro[chave]
        ELSE IF Contem(doc, chave) THEN Campo(doc, chave) = filtro[chave]
        ELSE FALSE

\* a DocumentoEmbedding: a document and its embedding, or None
DocEmb(doc, e) == [documento |-> doc, embedding |-> e]

\* "indice"
StrIndice == <<105, 110, 100, 105, 99, 101>>

\* the positions (from 0) of the documents that carry an embedding
ComEmbedding(documentos) == {i \in 1..Len(documentos) : documentos[i].embedding # None}

\* embeddings: the vectors of those documents, in order
RECURSIVE Embeddings(_)
Embeddings(documentos) ==
    IF documentos = <<>> THEN <<>>
    ELSE IF documentos[1].embedding # None
    THEN <<documentos[1].embedding>> \o Embeddings(Tail(documentos))
    ELSE Embeddings(Tail(documentos))

\* id_para_documento[i] = doc.documento, i counting every document
MapaDeDocumentos(documentos) ==
    [s \in {i - 1 : i \in ComEmbedding(documentos)} |-> documentos[s + 1].documento]

\* np.array(embeddings) is a matrix when all rows have one length
Matriz(vs) == \A i \in 1..Len(vs) : Len(vs[i]) = Len(vs[1])

\* salvar_indice_faiss: the three writes under one timestamp; json.dump of
\* indice_metadata.dict() raises TypeError on its datetime fields and leaves
\* the metadata file truncated
SalvarIndiceFaiss(d, idx, mapa, meta) ==
    LET ts == Timestamp(relogio)
        d1 == Put(d, NomeIndice(meta.id, ts), [tipo |-> "index", idx |-> idx])
        d2 == Put(d1, NomeMapeamento(meta.id, ts),
                  [tipo |-> "mapping", completo |-> TRUE,
                   dados |-> [s \in {StrOfInt(k) : k \in DOMAIN mapa} |->
                                 SerializaDoc(mapa[CHOOSE k \in DOMAIN mapa : StrOfInt(k) = s])]])
    IN  Put(d2, NomeMetadata(meta.id, ts), MetadataGravado(meta))

\* a mutation of IndiceNaFalha: a build that fails drops the current index
IndiceNaFalha_Descarta(atual) == SemIndice

\* self.index when construir_indice_faiss returns False: the returns at 259
\* and 273 and the ValueError of np.array at 276 all come before the first
\* assignment to self.index at 280
IndiceNaFalha(atual) == atual

construir_indice_faiss(documentos, nome_indice) ==
    LET vs == Embeddings(documentos)
        idx == [tipo |-> "flat", d |-> Len(vs[1]), vecs |-> vs]
        mapa == MapaDeDocumentos(documentos)
        meta == [id |-> IF nome_indice # None THEN nome_indice
                        ELSE StrIndice \o Und \o Timestamp(relogio),
                 dimensao |-> Len(vs[1]), num_vetores |-> Len(vs),
                 tem_mapeamento_ids |-> TRUE]
    IN  /\ nSalvar < MaxConstruir
        /\ nSalvar' = nSalvar + 1
        /\ IF vs = <<>> \/ ~Matriz(vs)
           THEN /\ ult' = Chamada("construir_indice_faiss", nome_indice, documentos, FALSE)
                /\ index' = IndiceNaFalha(index)
                /\ UNCHANGED <<id_para_documento, indice_metadata, disco>>
           ELSE /\ index' = idx
                /\ id_para_documento' = mapa
                /\ indice_metadata' = meta
                /\ disco' = SalvarIndiceFaiss(disco, idx, mapa, meta)
                /\ ult' = Chamada("construir_indice_faiss", nome_indice, documentos, TRUE)
        /\ UNCHANGED <<indices, mapeamentos, metadados, relogio, ultimoSalvo>>
        /\ UNCHANGED <<cache_embeddings, disco_cache, chamadas>>
        /\ UNCHANGED varsExec
        /\ UNCHANGED varsSessao

\* the newest file of d that starts with prefixo and ends with sufixo, or None
MaisRecente(d, prefixo, sufixo) ==
    LET S == {f \in DOMAIN d : StartsWith(f, prefixo) /\ EndsWith(f, sufixo)}
    IN  IF S = {} THEN None ELSE MaiorNome(S)

\* What one carregar_indice_faiss call does, read off the files d: the blob
\* file, the mapping file and the metadata file it settles on
ArquivosFaiss(d, caminho) ==
    IF caminho = None
    THEN LET nome == MaisRecente(d, <<>>, ExtIndex)
             prefixo == IF nome = None THEN <<>> ELSE Split(nome, 95)[1]
         IN  [nome |-> nome,
              map |-> IF nome = None THEN None ELSE MaisRecente(d, prefixo, SufMapping),
              meta |-> IF nome = None THEN None ELSE MaisRecente(d, prefixo, SufMetadata)]
    ELSE LET base == SubSeq(caminho, 1, Len(caminho) - Len(ExtIndex))
         IN  [nome |-> caminho,
              map |-> IF (base \o SufMapping) \in DOMAIN d THEN base \o SufMapping ELSE None,
              meta |-> IF (base \o SufMetadata) \in DOMAIN d THEN base \o SufMetadata ELSE None]

carregar_indice_faiss(caminho) ==
    LET a == ArquivosFaiss(disco, caminho)
        legivel == a.nome # None /\ a.nome \in DOMAIN disco
        mapa == IF a.map = None THEN Vazio ELSE MapeamentoLido(disco[a.map].dados)
        metaOk == a.meta = None \/ disco[a.meta].completo
    IN  /\ index' = IF legivel THEN disco[a.nome].idx ELSE index
        /\ id_para_documento' = IF legivel THEN mapa ELSE id_para_documento
        /\ indice_metadata' =
              IF ~legivel \/ ~metaOk THEN indice_metadata
              ELSE IF a.meta # None THEN disco[a.meta].dados
              ELSE [id |-> StrIndice \o Und \o Timestamp(relogio),
                    dimensao |-> disco[a.nome].idx.d,
                    num_vetores |-> NTotal(disco[a.nome].idx),
                    tem_mapeamento_ids |-> mapa # Vazio]
        /\ ult' = Chamada("carregar_indice_faiss", None, caminho, legivel /\ metaOk)
        /\ UNCHANGED <<indices, mapeamentos, metadados, disco, relogio, nSalvar, ultimoSalvo>>
        /\ UNCHANGED <<cache_embeddings, disco_cache, chamadas>>
        /\ UNCHANGED varsExec
        /\ UNCHANGED varsSessao

\* the loop of buscar over the labels of one search: the pairs
\* (doc, similarity) of the labels with an entry whose document passes the
\* filter; None and {} are no filter
RECURSIVE Filtra(_, _, _, _)
Filtra(m, I, D, filtro) ==
    IF I = <<>> THEN <<>>
    ELSE IF I[1] = 0 - 1 \/ I[1] \notin DOMAIN m
    THEN Filtra(m, Tail(I), Tail(D), filtro)
    ELSE IF filtro # Vazio /\ ~Atende(m[I[1]], filtro)
    THEN Filtra(m, Tail(I), Tail(D), filtro)
    ELSE <<[doc |-> m[I[1]], sim2 |-> Similaridade2(D[1])]>>
             \o Filtra(m, Tail(I), Tail(D), filtro)

\* the list buscar returns for the query vector q
BuscarEmb(idx, m, q, k, filtro) ==
    IF idx = SemIndice THEN <<>>
    \* index.search raises on a query of another width and on k < 1
    ELSE IF Len(q) # idx.d \/ k < 1 THEN <<>>
    ELSE LET r == Search(idx, q, k) IN Filtra(m, r.I, r.D, filtro)

buscar_emb(texto, k, filtro, resp) ==
    LET g == GerarEmbedding(cache_embeddings, texto, resp)
        chamou == IF index = SemIndice THEN 0 ELSE g.chamou
        salva == index # SemIndice /\ g.novo /\ Cardinality(DOMAIN g.cache) % PeriodoSalvar = 0
    IN  /\ chamadas + chamou <= MaxChamadas
        \* inputs that are not read are fixed
        /\ chamou = 0 => resp = Falha
        /\ cache_embeddings' = IF index = SemIndice THEN cache_embeddings ELSE g.cache
        /\ chamadas' = chamadas + chamou
        /\ disco_cache' = IF salva THEN SalvarCache(disco_cache, g.cache, FALSE)
                          ELSE disco_cache
        /\ ult' = Chamada("buscar_emb", None,
                          [texto |-> texto, k |-> k, filtro |-> filtro, resp |-> resp],
                          BuscarEmb(index, id_para_documento, g.vetor, k, filtro))
        /\ UNCHANGED <<indices, mapeamentos, metadados, disco, relogio, nSalvar, ultimoSalvo>>
        /\ UNCHANGED <<index, id_para_documento, indice_metadata>>
        /\ UNCHANGED varsExec
        /\ UNCHANGED varsSessao

\* the inputs of the runs of SpecEmbBusca
DocA == Documento("obj", "A", "fatura")
DocB == Documento("obj", "B", "fatura")
DocC == Documento("obj", "A", "cliente_info")
ListasDeDocumentos ==
    { <<>>,
      <<DocEmb(DocA, None)>>,
      <<DocEmb(DocA, <<1, 0>>), DocEmb(DocB, <<0, 1>>), DocEmb(DocC, <<1, 0>>)>>,
      <<DocEmb(DocA, None), DocEmb(DocB, <<0, 1>>), DocEmb(DocC, <<1, 0>>)>>,
      <<DocEmb(DocA, <<1>>)>> }
Filtros ==
    { Vazio,
      ("cid" :> "A"),
      ("tipo" :> "fatura"),
      ("cid" :> "A" @@ "tipo" :> "fatura"),
      ("nome" :> "A"),
      ("dict" :> "A"),
      ("cid" :> "A" @@ "items" :> "A") }

\* the provider raises, or answers the query text with one vector
RespostasBusca == {Falha, Resposta(<<<<1, 0>>>>)}

NextEmbBusca ==
    \/ \E docs \in ListasDeDocumentos, nome \in {None, IdA} :
          nSalvar < MaxConstruirBusca /\ construir_indice_faiss(docs, nome)
    \/ \E caminho \in NomesArg(IdA) : carregar_indice_faiss(caminho)
    \/ \E t \in {"t1"}, k \in 0..MaxK, filtro \in Filtros, resp \in RespostasBusca :
          buscar_emb(t, k, filtro, resp)
    \/ passa_segundo

\* the index of the EmbeddingsService: built, loaded and searched
SpecEmbBusca == Init /\ [][NextEmbBusca]_vars

(* ------ buscar_cliente_por_matricula, buscar_faturas_cliente ----------- *)
\* k of the search each lookup falls back to
KCliente == 5
KFaturas == 20

\* the documents of the structured store (JsonDatabase), in the order
\* listar_documentos lists them
Cli(numero, nome) == [numeroCliente |-> numero, nome |-> nome]
Fat(cliente, mes) == [cliente_id |-> cliente, mes |-> mes]
Matriculas == {"1", "2"}
ClientesNoBanco ==
    { <<>>,
      <<Cli("1", "x")>>,
      <<Cli("2", "y"), Cli("1", "x")>>,
      <<Cli("1", "x"), Cli("1", "z")>> }
FaturasNoBanco ==
    { <<>>,
      <<Fat("A", "jan")>>,
      <<Fat("B", "jan"), Fat("A", "jan"), Fat("A", "fev")>> }

\* db.buscar_documentos(tipo, {chave: valor}): the documents whose field
\* chave is valor, in listing order; a document without the field has None
\* there and does not match
BuscarNoBanco(docs, chave, valor) ==
    SelectSeq(docs, LAMBDA doc : chave \in DOMAIN doc /\ doc[chave] = valor)

\* a mutation of CaminhoDireto: the structured result is never used
CaminhoDireto_Nunca(achados) == FALSE

\* "if clientes and len(clientes) > 0" / "if faturas"
CaminhoDireto(achados) == achados # <<>>

\* the query texts of the two fallbacks (f-strings over the identifier)
ConsultaCliente(matricula) == IF matricula = "1" THEN "cliente 1" ELSE "cliente 2"
ConsultaFaturas(cliente_id) == IF cliente_id = "A" THEN "faturas A" ELSE "faturas B"

\* None where a document is expected
NenhumDoc == [forma |-> "None"]

\* a ClienteDocumento, which carries a matricula
DocCliente(forma, c, mat) ==
    [forma |-> forma, cid |-> c, tipo |-> "cliente_info", matricula |-> mat]

\* the first result whose matricula is the one asked for, or None
RECURSIVE PrimeiroComMatricula(_, _)
PrimeiroComMatricula(resultados, matricula) ==
    IF resultados = <<>> THEN NenhumDoc
    ELSE IF "matricula" \in DOMAIN resultados[1].doc
            /\ resultados[1].doc.matricula = matricula
    THEN resultados[1].doc
    ELSE PrimeiroComMatricula(Tail(resultados), matricula)

\* [doc for doc, score in resultados]
SoDocumentos(resultados) == [i \in 1..Len(resultados) |-> resultados[i].doc]

\* What one lookup does: the value returned, whether self.buscar was called
\* (buscas), and what its gerar_embedding did to the cache and the provider
Consulta2(achados, direto, texto, k, filtro, resp) ==
    IF CaminhoDireto(achados)
    THEN [valor |-> direto, buscas |-> 0, chamou |-> 0, cache |-> cache_embeddings,
          novo |-> FALSE]
    ELSE IF index = SemIndice
    THEN [valor |-> <<>>, buscas |-> 0, chamou |-> 0, cache |-> cache_embeddings,
          novo |-> FALSE]
    ELSE LET g == GerarEmbedding(cache_embeddings, texto, resp)
         IN  [valor |-> BuscarEmb(index, id_para_documento, g.vetor, k, filtro),
              buscas |-> 1, chamou |-> g.chamou, cache |-> g.cache, novo |-> g.novo]

buscar_cliente_por_matricula(matricula, clientes, resp) ==
    LET achados == BuscarNoBanco(clientes, "numeroCliente", matricula)
        r == Consulta2(achados, <<>>, ConsultaCliente(matricula), KCliente,
                       ("tipo" :> "cliente_info"), resp)
        valor == IF CaminhoDireto(achados) THEN achados[1]
                 ELSE PrimeiroComMatricula(r.valor, matricula)
        salva == r.novo /\ Cardinality(DOMAIN r.cache) % PeriodoSalvar = 0
    IN  /\ chamadas + r.chamou <= MaxChamadas
        \* inputs that are not read are fixed
        /\ r.chamou = 0 => resp = Falha
        /\ cache_embeddings' = r.cache
        /\ chamadas' = chamadas + r.chamou
        /\ disco_cache' = IF salva THEN SalvarCache(disco_cache, r.cache, FALSE)
                          ELSE disco_cache
        /\ ult' = Chamada("buscar_cliente_por_matricula", None,
                          [chave |-> matricula, banco |-> clientes, resp |-> resp],
                          [valor |-> valor, buscas |-> r.buscas, chamou |-> r.chamou])
        /\ UNCHANGED <<indices, mapeamentos, metadados, disco, relogio, nSalvar, ultimoSalvo>>
        /\ UNCHANGED <<index, id_para_documento, indice_metadata>>
        /\ UNCHANGED varsExec
        /\ UNCHANGED varsSessao

buscar_faturas_cliente(cliente_id, faturas, resp) ==
    LET achados == BuscarNoBanco(faturas, "cliente_id", cliente_id)
        r == Consulta2(achados, achados, ConsultaFaturas(cliente_id), KFaturas,
                       ("tipo" :> "fatura" @@ "cid" :> cliente_id), resp)
        valor == IF r.buscas = 1 THEN SoDocumentos(r.valor) ELSE r.valor
        salva == r.novo /\ Cardinality(DOMAIN r.cache) % PeriodoSalvar = 0
    IN  /\ chamadas + r.chamou <= MaxChamadas
        \* inputs that are not read are fixed
        /\ r.chamou = 0 => resp = Falha
        /\ cache_embeddings' = r.cache
        /\ chamadas' = chamadas + r.chamou
        /\ disco_cache' = IF salva THEN SalvarCache(disco_cache, r.cache, FALSE)
                          ELSE disco_cache
        /\ ult' = Chamada("buscar_faturas_cliente", None,
                          [chave |-> cliente_id, banco |-> faturas, resp |-> resp],
                          [valor |-> valor, buscas |-> r.buscas, chamou |-> r.chamou])
        /\ UNCHANGED <<indices, mapeamentos, metadados, disco, relogio, nSalvar, ultimoSalvo>>
        /\ UNCHANGED <<index, id_para_documento, indice_metadata>>
        /\ UNCHANGED varsExec
        /\ UNCHANGED varsSessao

\* the documents the index is built from in the runs of SpecEstruturado
ListasComCliente ==
    { <<DocEmb(DocCliente("obj", "A", "1"), <<1, 0>>), DocEmb(DocB, <<0, 1>>)>>,
      <<DocEmb(DocA, <<1, 0>>), DocEmb(DocCliente("obj", "B", "2"), <<1, 0>>)>> }

NextEstruturado ==
    \/ \E docs \in ListasComCliente : construir_indice_faiss(docs, IdA)
    \/ \E mat \in Matriculas, banco \in ClientesNoBanco, resp \in RespostasBusca :
          buscar_cliente_por_matricula(mat, banco, resp)
    \/ \E c \in {"A", "B"}, banco \in FaturasNoBanco, resp \in RespostasBusca :
          buscar_faturas_cliente(c, banco, resp)

\* the two lookups that try the structured store before the index
SpecEstruturado == Init /\ [][NextEstruturado]_vars

\* the index built and built again, under one name or two, and loaded
ListasReconstruir ==
    { <<DocEmb(DocA, <<1, 0>>)>>,
      <<DocEmb(DocB, <<0, 1>>), DocEmb(DocC, <<1, 0>>)>>,
      <<DocEmb(DocA, None)>>,
      <<DocEmb(DocA, <<1, 0>>), DocEmb(DocB, <<1>>)>> }

NextReconstruir ==
    \/ \E docs \in ListasReconstruir, nome \in {None, IdA, IdAB} :
          construir_indice_faiss(docs, nome)
    \/ \E caminho \in NomesArg(IdA) : carregar_indice_faiss(caminho)
    \/ novo_servico_emb
    \/ passa_segundo

SpecReconstruir == Init /\ [][NextReconstruir]_vars

\* both services keep their snapshots in settings.DIRETORIO_FAISS: the
\* FaissService persists and loads by id while the EmbeddingsService builds
\* and loads whatever the directory lists
NextDiretorio ==
    \/ \E id \in Ids : criar_indice(id, 2, "flat")
    \/ \E id \in Ids, mapa \in MapArgsDisco :
          Cabe(id, Lote(<<Unit(2)>>), MaxVetores)
              /\ adicionar_vetores(id, Lote(<<Unit(2)>>), mapa)
    \/ \E id \in Ids, falha \in FalhasCarga : salvar_indice(id, falha)
    \/ \E id \in Ids : carregar_indice(id, None)
    \/ \E docs \in ListasReconstruir, nome \in {None, IdA} :
          construir_indice_faiss(docs, nome)
    \/ carregar_indice_faiss(None)
    \/ passa_segundo

SpecDiretorio == Init /\ [][NextDiretorio]_vars

\* both searches that resolve documents, each on a small index
NextResolve ==
    \/ criar_indice(IdA, 1, "flat")
    \/ \E mapa \in MapArgsDisco :
          Cabe(IdA, Lote(<<Unit(1)>>), MaxVetoresBusca)
              /\ adicionar_vetores(IdA, Lote(<<Unit(1)>>), mapa)
    \/ \E k \in 1..MaxK : buscar_documentos(IdA, Consulta(Unit(1)), k)
    \/ \E docs \in ListasDeDocumentos : construir_indice_faiss(docs, IdA)
    \/ \E k \in 1..MaxK, resp \in RespostasBusca : buscar_emb("t1", k, Vazio, resp)

SpecResolve == Init /\ [][NextResolve]_vars

(* ---------------- SessionManager and SessionStore ---------------------- *)
\* uuid.uuid4() calls the model lets happen; the n-th call yields the id n
\* (a random 122-bit value: no two calls of a run yield the same id)
MaxUuid == 4

\* the matriculas sessions are opened for
MatriculasSessao == {"m1", "m2"}

\* a Sessao object (schemas.py 120-130) with its Usuario; chat_session and
\* contexto are not kept
Sessao(id, matricula, nome, validado, t) ==
    [id |-> id, matricula |-> matricula, nome |-> nome, validado |-> validado,
     ultima_atividade |-> t]

\* the dict of a stored session; chaves tells which keys it has: those
\* criar_sessao passes ("criar"), those persistir_sessao passes
\* ("persistir"), or only ultima_atividade ("vazio")
DadosSessao(chaves, id, matricula, nome, validado, t) ==
    [chaves |-> chaves, id |-> id, matricula |-> matricula, nome |-> nome,
     validado |-> validado, ultima_atividade |-> t]

\* None where a Sessao or the dict of a session is expected
SemSessao == Sessao(0, "", "", FALSE, 0)
SemDados == DadosSessao("None", 0, "", "", FALSE, 0)

\* JsonDatabase.salvar_documento('sessoes', id, dados): the file is written,
\* or the write fails, which is logged and answered with False
SalvarDocumento(db, id, dados, falhaDb) == IF falhaDb THEN db ELSE Put(db, id, dados)

\* SessionStore.obter_sessao: the dict in memory, or the one loaded from the
\* file of that id, which is then kept in memory
StoreObterSessao(store, db, id) ==
    IF id \in DOMAIN store THEN [dados |-> store[id], store |-> store]
    ELSE IF id \in DOMAIN db THEN [dados |-> db[id], store |-> Put(store, id, db[id])]
    ELSE [dados |-> SemDados, store |-> store]

\* SessionStore.atualizar_sessao: False for an id that is neither in memory
\* nor on disk; otherwise the dict replaces the stored one
StoreAtualizarSessao(store, db, id, dados, falhaDb) ==
    IF id \notin DOMAIN store /\ id \notin DOMAIN db
    THEN [ret |-> FALSE, store |-> store, db |-> db]
    ELSE LET d == [dados EXCEPT !.ultima_atividade = relogio]
         IN  [ret |-> TRUE, store |-> Put(store, id, d),
              db |-> SalvarDocumento(db, id, d, falhaDb)]

\* SessionManager.obter_sessao: the Sessao in memory, or one rebuilt from
\* the dict of the store
SmObterSessao(sm, store, db, id) ==
    IF id \in DOMAIN sm THEN [sessao |-> sm[id], sm |-> sm, store |-> store]
    ELSE LET r == StoreObterSessao(store, db, id)
         IN  IF r.dados = SemDados
             THEN [sessao |-> SemSessao, sm |-> sm, store |-> r.store]
             ELSE LET s == Sessao(id, r.dados.matricula, r.dados.nome, r.dados.validado,
                                  relogio)
                  IN  [sessao |-> s, sm |-> Put(sm, id, s), store |-> r.store]

\* the frame of the session operations
SoSessoes ==
    /\ UNCHANGED <<indices, mapeamentos, metadados, disco, relogio, nSalvar, ultimoSalvo>>
    /\ UNCHANGED varsEmb
    /\ UNCHANGED varsExec

\* SessionManager.criar_sessao: the manager draws the id of the Sessao;
\* SessionStore.criar_sessao draws an id of its own for the dict it stores
\* and returns it to a caller that does not read it
criar_sessao(matricula, falhaDb) ==
    LET sessao_id == uuids + 1
        id_do_store == uuids + 2
        sessao == Sessao(sessao_id, matricula, "", FALSE, relogio)
        dados == DadosSessao("criar", sessao_id, matricula, "", FALSE, relogio)
    IN  /\ uuids + 2 <= MaxUuid
        /\ uuids' = uuids + 2
        /\ sm_sessoes' = Put(sm_sessoes, sessao_id, sessao)
        /\ store_sessoes' = Put(store_sessoes, id_do_store, dados)
        /\ db_sessoes' = SalvarDocumento(db_sessoes, id_do_store, dados, falhaDb)
        /\ ult' = Chamada("criar_sessao", None, [matricula |-> matricula], sessao)
        /\ SoSessoes

obter_sessao(sessao_id) ==
    LET r == SmObterSessao(sm_sessoes, store_sessoes, db_sessoes, sessao_id)
    IN  /\ sm_sessoes' = r.sm
        /\ store_sessoes' = r.store
        /\ ult' = Chamada("obter_sessao", None, [sessao_id |-> sessao_id], r.sessao)
        /\ UNCHANGED <<db_sessoes, uuids>>
        /\ SoSessoes

\* the result of atualizar_sessao is not read (line 119)
atualizar_timestamp_sessao(sessao_id, falhaDb) ==
    LET r == SmObterSessao(sm_sessoes, store_sessoes, db_sessoes, sessao_id)
        sm == [r.sm EXCEPT ![sessao_id].ultima_atividade = relogio]
        o == StoreObterSessao(r.store, db_sessoes, sessao_id)
        dados == IF o.dados = SemDados
                 THEN DadosSessao("vazio", 0, "", "", FALSE, relogio)
                 ELSE [o.dados EXCEPT !.ultima_atividade = relogio]
        a == StoreAtualizarSessao(o.store, db_sessoes, sessao_id, dados, falhaDb)
    IN  /\ IF r.sessao = SemSessao
           THEN /\ ~falhaDb
                /\ sm_sessoes' = r.sm
                /\ store_sessoes' = r.store
                /\ UNCHANGED db_sessoes
           ELSE /\ falhaDb => a.ret
                /\ sm_sessoes' = sm
                /\ store_sessoes' = a.store
                /\ db_sessoes' = a.db
        /\ ult' = Chamada("atualizar_timestamp_sessao", None, [sessao_id |-> sessao_id],
                          r.sessao # SemSessao)
        /\ UNCHANGED uuids
        /\ SoSessoes

\* persistir_sessao(sessao) for a Sessao the manager holds
persistir_sessao(sessao_id, falhaDb) ==
    LET s == sm_sessoes[sessao_id]
        dados == DadosSessao("persistir", s.id, s.matricula, s.nome, s.validado,
                             s.ultima_atividade)
        a == StoreAtualizarSessao(store_sessoes, db_sessoes, sessao_id, dados, falhaDb)
    IN  /\ sessao_id \in DOMAIN sm_sessoes
        /\ falhaDb => a.ret
        /\ store_sessoes' = a.store
        /\ db_sessoes' = a.db
        /\ ult' = Chamada("persistir_sessao", None, [sessao_id |-> sessao_id], a.ret)
        /\ UNCHANGED <<sm_sessoes, uuids>>
        /\ SoSessoes

\* SessionManager.remover_sessao: the result is that of remover_documento
remover_sessao(sessao_id) ==
    /\ sm_sessoes' = IF sessao_id \in DOMAIN sm_sessoes THEN Del(sm_sessoes, sessao_id)
                     ELSE sm_sessoes
    /\ store_sessoes' = IF sessao_id \in DOMAIN store_sessoes
                        THEN Del(store_sessoes, sessao_id) ELSE store_sessoes
    /\ db_sessoes' = IF sessao_id \in DOMAIN db_sessoes THEN Del(db_sessoes, sessao_id)
                     ELSE db_sessoes
    /\ ult' = Chamada("remover_sessao", None, [sessao_id |-> sessao_id],
                      sessao_id \in DOMAIN db_sessoes)
    /\ UNCHANGED uuids
    /\ SoSessoes

\* a new process: the tables of both singletons are empty, the files stay
novo_processo_sessoes ==
    /\ sm_sessoes' = Vazio
    /\ store_sessoes' = Vazio
    /\ ult' = Chamada("novo_processo_sessoes", None, None, TRUE)
    /\ UNCHANGED <<db_sessoes, uuids>>
    /\ SoSessoes

NextSessao ==
    \/ \E m \in MatriculasSessao, f \in BOOLEAN : criar_sessao(m, f)
    \/ \E id \in 1..MaxUuid : obter_sessao(id)
    \/ \E id \in 1..MaxUuid, f \in BOOLEAN : atualizar_timestamp_sessao(id, f)
    \/ \E id \in 1..MaxUuid, f \in BOOLEAN : persistir_sessao(id, f)
    \/ \E id \in 1..MaxUuid : remover_sessao(id)
    \/ novo_processo_sessoes
    \/ passa_segundo

\* sessions created, read, touched, persisted and removed, over restarts
SpecSessao == Init /\ [][NextSessao]_vars

(* ======================= properties of the store ====================== *)
\* the documents of two mappings carry the same fields under the same slots
MesmoConteudo(m1, m2) ==
    /\ DOMAIN m1 = DOMAIN m2
    /\ \A k \in DOMAIN m1 : m1[k].cid = m2[k].cid

\* the snapshot files that share the version token of the blob file nome
ArquivoMapeamentoDe(nome) == SubSeq(nome, 1, Len(nome) - Len(ExtIndex)) \o SufMapping
ArquivoMetadataDe(nome) == SubSeq(nome, 1, Len(nome) - Len(ExtIndex)) \o SufMetadata

\* some file of id carries the token of second t
TokenUsado(d, id, t) ==
    {NomeIndice(id, Timestamp(t)), NomeMapeamento(id, Timestamp(t)),
     NomeMetadata(id, Timestamp(t))} \cap DOMAIN d # {}

\* C1: every successful add raises ntotal by the batch size, stores each
\* supplied entry under ntotal_before + local slot, and leaves every entry
\* stored before the call as it was.
C1_OffsetCorrectness ==
    [][\A id \in Ids, lote \in Lotes, mapa \in MapArgs :
          (adicionar_vetores(id, lote, mapa) /\ ult'.ret) =>
              LET off == NTotal(indices[id])
              IN  /\ NTotal(indices'[id]) = off + Linhas(lote)
                  /\ \A k \in DOMAIN mapa :
                        /\ (off + k) \in DOMAIN mapeamentos'[id]
                        /\ mapeamentos'[id][off + k] = mapa[k]
                  /\ \A k \in DOMAIN mapeamentos[id] :
                        /\ k \in DOMAIN mapeamentos'[id]
                        /\ mapeamentos'[id][k] = mapeamentos[id][k]]_vars

\* C2: in every reachable state every key of a slot mapping is an integer
\* in [0, ntotal) of its index.
C2_SlotsInRange ==
    \A id \in DOMAIN mapeamentos : \A k \in DOMAIN mapeamentos[id] :
        /\ id \in DOMAIN indices
        /\ 0 <= k
        /\ k < NTotal(indices[id])

\* C3: an add whose batch is not 2-D or whose width differs from the
\* dimension of the index returns False and leaves the index, the mapping
\* and the metadata as they were.
C3_DimensionMismatchRejected ==
    [][(/\ ult'.op = "adicionar_vetores"
        /\ ult'.id \in DOMAIN indices
        /\ (~ult'.arg.forma2D \/ Colunas(ult'.arg) # indices[ult'.id].d))
       => (~ult'.ret /\ UNCHANGED <<indices, mapeamentos, metadados>>)]_vars

\* a batch of the wrong width was refused by an index that holds vectors and
\* a mapping
C3_Witness ==
    /\ ult.op = "adicionar_vetores"
    /\ ~ult.ret
    /\ ult.id \in DOMAIN indices
    /\ ult.arg.forma2D
    /\ Colunas(ult.arg) # indices[ult.id].d
    /\ NTotal(indices[ult.id]) > 0
    /\ mapeamentos[ult.id] # Vazio

\* C4: right after a successful persist of id, a load of id in a fresh
\* service succeeds with the same ntotal, the same dimension and the same
\* slot -> document content.
C4_RoundTrip ==
    (ult.op = "salvar_indice" /\ ult.ret) =>
        LET r == Carga(disco, ult.id, None)
        IN  /\ r.etapa = "completo"
            /\ NTotal(r.idx) = NTotal(indices[ult.id])
            /\ r.idx.d = indices[ult.id].d
            /\ MesmoConteudo(r.map, mapeamentos[ult.id])

\* C5: whenever id has been persisted successfully, a load of id without a
\* file name adopts the snapshot of the most recent successful persist.
C5_LoadAdoptsLatestPersist ==
    \A id \in DOMAIN ultimoSalvo :
        LET r == Carga(disco, id, None)
        IN  /\ r.etapa = "completo"
            /\ r.idx = ultimoSalvo[id].idx
            /\ MesmoConteudo(r.map, ultimoSalvo[id].map)

\* C6: a successful persist uses a token greater than every token some file
\* of the id already carries.
C6_TokensIncrease ==
    [][(ult'.op = "salvar_indice" /\ ult'.ret) =>
          \A t \in 0..MaxClock : TokenUsado(disco, ult'.id, t) => t < relogio]_vars

\* C7: a load that returns True found the blob, the mapping file and the
\* metadata file of one snapshot, complete and in agreement on dimension,
\* vector count and slot range.
C7_LoadNeedsConsistentTriple ==
    (ult.op = "carregar_indice" /\ ult.ret) =>
        LET nome == NomeEscolhido(disco, ult.id, ult.arg)
            nMap == ArquivoMapeamentoDe(nome)
            nMeta == ArquivoMetadataDe(nome)
        IN  /\ nMap \in DOMAIN disco
            /\ nMeta \in DOMAIN disco
            /\ disco[nMeta].completo
            /\ disco[nMeta].dados.dimensao = disco[nome].idx.d
            /\ disco[nMeta].dados.num_vetores = NTotal(disco[nome].idx)
            /\ \A s \in DOMAIN disco[nMap].dados :
                  IntOfStr(s) >= 0 /\ IntOfStr(s) < NTotal(disco[nome].idx)

\* C8: a load that returns False leaves the three tables as they were.
C8_FailedLoadAdoptsNothing ==
    [][(ult'.op = "carregar_indice" /\ ~ult'.ret) =>
          UNCHANGED <<indices, mapeamentos, metadados>>]_vars

\* C9: after a persist of id that failed, a load of id without a file name
\* adopts the most recent complete snapshot of id, and nothing when there is
\* none.
C9_IncompleteNeverAdopted ==
    (ult.op = "salvar_indice" /\ ~ult.ret /\ ult.id \in DOMAIN indices) =>
        LET r == Carga(disco, ult.id, None)
        IN  IF ult.id \in DOMAIN ultimoSalvo
            THEN /\ r.etapa = "completo"
                 /\ r.idx = ultimoSalvo[ult.id].idx
                 /\ MesmoConteudo(r.map, ultimoSalvo[ult.id].map)
            ELSE r.etapa = "nada"

\* C10: a persist whose write the file system refuses returns False, and a
\* persist, failed or not, leaves the vectors and the mapping of every index
\* in memory as they were.
C10_PersistKeepsMemory ==
    [][ult'.op = "salvar_indice" =>
          /\ indices' = indices
          /\ mapeamentos' = mapeamentos
          /\ (ult'.arg # "nenhuma" => ~ult'.ret)]_vars

\* the mapping write of a persist was refused after the blob was written,
\* for an index that holds vectors and a mapping
C10_Witness ==
    /\ ult.op = "salvar_indice"
    /\ ult.arg = "mapeamento"
    /\ ~ult.ret
    /\ ult.id \in DOMAIN indices
    /\ NTotal(indices[ult.id]) > 0
    /\ mapeamentos[ult.id] # Vazio
    /\ NomeIndice(ult.id, Timestamp(relogio)) \in DOMAIN disco
    /\ NomeMapeamento(ult.id, Timestamp(relogio)) \notin DOMAIN disco

(* ====================== properties of the searches ==================== *)
\* the width of a query: shape[1] of a matrix, the length of a 1-D vector
LarguraConsulta(c) == IF c.forma2D THEN Colunas(c) ELSE Len(c.vet)

\* the last call searched index id, which exists, with a query of its width
BuscaValida(op) ==
    /\ ult.op = op
    /\ ult.id \in DOMAIN indices
    /\ LarguraConsulta(ult.arg.q) = indices[ult.id].d

\* C14: buscar on an existing index with a query of the right width returns
\* at most k (slot, distance) pairs, with distances in non-decreasing order.
C14_AtMostKSorted ==
    BuscaValida("buscar") =>
        /\ Len(ult.ret.I) <= ult.arg.k
        /\ Len(ult.ret.D) = Len(ult.ret.I)
        /\ \A i \in 1..Len(ult.ret.D) : \A j \in i..Len(ult.ret.D) :
              ult.ret.D[i] <= ult.ret.D[j]

\* a search over two vectors returned slot 1 before slot 0
C14_Witness ==
    /\ BuscaValida("buscar")
    /\ ult.arg.k = 2
    /\ ult.ret.I = <<1, 0>>
    /\ ult.ret.D[1] < ult.ret.D[2]

\* C15: for k > ntotal, buscar returns exactly ntotal results, each naming a
\* slot in [0, ntotal).
C15_ExactlyVectorCount ==
    (BuscaValida("buscar") /\ ult.arg.k > NTotal(indices[ult.id])) =>
        /\ Len(ult.ret.I) = NTotal(indices[ult.id])
        /\ \A j \in 1..Len(ult.ret.I) :
              ult.ret.I[j] >= 0 /\ ult.ret.I[j] < NTotal(indices[ult.id])

\* the positions of the labels of I that are a slot with an entry in m
ComEntrada(m, I) ==
    SelectSeq([j \in 1..Len(I) |-> j], LAMBDA j : I[j] # (0 - 1) /\ I[j] \in DOMAIN m)

\* C18 (FaissService): buscar_documentos on an index with a mapping returns,
\* in the order of the search, the document and the similarity of every
\* returned slot that has a mapping entry, and nothing for the slots without
\* entry and for the placeholder -1.
C18_MissingSlotsSkipped ==
    (BuscaValida("buscar_documentos") /\ ult.id \in DOMAIN mapeamentos
        /\ mapeamentos[ult.id] # Vazio) =>
        LET m == mapeamentos[ult.id]
            r == Buscar(ult.id, ult.arg.q, ult.arg.k)
            p == ComEntrada(m, r.I)
        IN  /\ Len(ult.ret) = Len(p)
            /\ \A i \in 1..Len(p) :
                  /\ ult.ret[i].doc = m[r.I[p[i]]]
                  /\ ult.ret[i].sim2 = Similaridade2(r.D[p[i]])

\* a search returned a document although it also met a slot without entry
\* and the placeholder -1
C18_Witness ==
    /\ BuscaValida("buscar_documentos")
    /\ Len(ult.ret) >= 1
    /\ LET r == Buscar(ult.id, ult.arg.q, ult.arg.k)
       IN  /\ \E j \in 1..Len(r.I) : r.I[j] = 0 - 1
           /\ \E j \in 1..Len(r.I) : r.I[j] >= 0 /\ r.I[j] \notin DOMAIN mapeamentos[ult.id]

\* C19: criar_indice with an id already in use returns False and leaves the
\* index, the mapping and the metadata of that id as they were.
C19_CreateExistingFails ==
    [][(ult'.op = "criar_indice" /\ ult'.id \in DOMAIN indices)
       => (~ult'.ret /\ UNCHANGED <<indices, mapeamentos, metadados>>)]_vars

\* a create was refused for an id whose index holds vectors and a mapping
C19_Witness ==
    /\ ult.op = "criar_indice"
    /\ ~ult.ret
    /\ ult.id \in DOMAIN indices
    /\ NTotal(indices[ult.id]) > 0
    /\ mapeamentos[ult.id] # Vazio

\* C20: a remove leaves every file as it was, and a load of the id after it
\* adopts the snapshot of the last successful persist of the id.
C20_RemoveKeepsSnapshots ==
    [][(ult'.op = "remover_indice" /\ ult'.ret) =>
          /\ disco' = disco
          /\ ult'.id \in DOMAIN ultimoSalvo =>
                LET r == Carga(disco', ult'.id, None)
                IN  /\ r.etapa = "completo"
                    /\ r.idx = ultimoSalvo[ult'.id].idx
                    /\ MesmoConteudo(r.map, ultimoSalvo[ult'.id].map)]_vars

\* the part of C20 that is about the files alone: a remove changes none
C20_RemoveKeepsFiles ==
    [][ult'.op = "remover_indice" => disco' = disco]_vars

(* ===================== properties of the embeddings =================== *)
\* C11: two gerar_embedding calls in a row for the same text call the
\* provider at most once in total and return the same vector.
C11_EmbedIdempotent ==
    [][(/\ ult.op = "gerar_embedding"
        /\ ult'.op = "gerar_embedding"
        /\ ult'.arg.texto = ult.arg.texto)
       => (/\ ult.ret.chamou + ult'.ret.chamou <= 1
           /\ ult'.ret.vetor = ult.ret.vetor)]_vars

\* the place of position i among the positions to process
Ordem(idxs, i) == CHOOSE j \in 1..Len(idxs) : idxs[j] = i

\* C12: gerar_embeddings_batch returns one vector per text, none of them
\* None: the cached vector where the key was in the cache, and the provider's
\* vector for that text where it was not and the provider answered.
C12_BatchAligned ==
    [][ult'.op = "gerar_embeddings_batch" =>
          LET textos == ult'.arg.textos
              resp == ult'.arg.resp
              r == ult'.ret.vetores
              idxs == Faltantes(cache_embeddings, textos, 1)
          IN  /\ Len(r) = Len(textos)
              /\ \A i \in 1..Len(textos) :
                    /\ r[i] # None
                    /\ ChaveCache(textos[i]) \in DOMAIN cache_embeddings
                          => r[i] = cache_embeddings[ChaveCache(textos[i])]
                    /\ (/\ ChaveCache(textos[i]) \notin DOMAIN cache_embeddings
                        /\ resp.ok
                        /\ Ordem(idxs, i) <= Len(resp.data))
                          => r[i] = resp.data[Ordem(idxs, i)]]_vars

\* C13: when the provider call fails, gerar_embeddings_batch returns the
\* zero vector of the configured dimension at every position that missed the
\* cache and the cached vector at every other position, and gerar_embedding
\* returns the zero vector for a text that missed the cache.
C13_ZerosOnProviderFailure ==
    [][/\ (ult'.op = "gerar_embeddings_batch" /\ ult'.ret.chamou = 1 /\ ~ult'.arg.resp.ok) =>
             LET textos == ult'.arg.textos
                 r == ult'.ret.vetores
             IN  /\ Len(r) = Len(textos)
                 /\ \A i \in 1..Len(textos) :
                       IF ChaveCache(textos[i]) \in DOMAIN cache_embeddings
                       THEN r[i] = cache_embeddings[ChaveCache(textos[i])]
                       ELSE r[i] = [j \in 1..DimensaoEmb |-> 0]
       /\ (ult'.op = "gerar_embedding" /\ ult'.ret.chamou = 1 /\ ~ult'.arg.resp.ok) =>
             ult'.ret.vetor = [j \in 1..DimensaoEmb |-> 0]]_vars

\* a batch of a cached text and a new one met a failing provider
C13_Witness ==
    /\ ult.op = "gerar_embeddings_batch"
    /\ ult.ret.chamou = 1
    /\ ~ult.arg.resp.ok
    /\ Len(ult.arg.textos) = 2
    /\ ult.ret.vetores[2] = [j \in 1..DimensaoEmb |-> 0]
    /\ ult.ret.vetores[1] # [j \in 1..DimensaoEmb |-> 0]
    /\ ChaveCache(ult.arg.textos[1]) \in DOMAIN cache_embeddings
    /\ ChaveCache(ult.arg.textos[2]) \notin DOMAIN cache_embeddings

(* =============== properties of EmbeddingsService.buscar =============== *)
\* the query vector of the last buscar call of the EmbeddingsService
ConsultaEmb == GerarEmbedding(cache_embeddings, ult.arg.texto, ult.arg.resp).vetor

\* the document has every key of the filter as a field, with an equal value
Satisfaz(doc, filtro) ==
    \A chave \in DOMAIN filtro : chave \in Campos /\ Campo(doc, chave) = filtro[chave]

\* what the last buscar call would have returned without its filter
SemFiltro == BuscarEmb(index, id_para_documento, ConsultaEmb, ult.arg.k, Vazio)

\* C16: every document returned by buscar with a non-empty filter has every
\* key of the filter as a field, equal to the filter's value.
C16_FilterNoFalsePositive ==
    (ult.op = "buscar_emb" /\ ult.arg.filtro # Vazio) =>
        \A i \in 1..Len(ult.ret) : Satisfaz(ult.ret[i].doc, ult.arg.filtro)

\* a search with a filter of two keys returned a document and left out another
C16_Witness ==
    /\ ult.op = "buscar_emb"
    /\ Cardinality(DOMAIN ult.arg.filtro) = 2
    /\ Len(ult.ret) >= 1
    /\ Len(ult.ret) < Len(SemFiltro)

\* C17: the result of buscar with a filter is the unfiltered result of the
\* same index, query and k with the documents that fail the filter taken out:
\* same order, same scores, no match dropped, at most k entries.
C17_FilterIsSubsequence ==
    ult.op = "buscar_emb" =>
        /\ ult.ret = SelectSeq(SemFiltro, LAMBDA e : Satisfaz(e.doc, ult.arg.filtro))
        /\ Len(ult.ret) <= ult.arg.k

\* a filtered search over documents loaded from the mapping file kept some
\* and left out others
C17_Witness ==
    /\ ult.op = "buscar_emb"
    /\ ult.arg.filtro # Vazio
    /\ Len(ult.ret) >= 1
    /\ Len(ult.ret) < Len(SemFiltro)
    /\ \A i \in 1..Len(ult.ret) : ult.ret[i].doc.forma = "dict"

\* C18 (EmbeddingsService): buscar without filter returns, in the order of
\* the search, the document and the similarity of every returned slot that
\* has an entry, and nothing for the other slots and for the placeholder -1.
C18_MissingSlotsSkippedEmb ==
    (/\ ult.op = "buscar_emb"
     /\ ult.arg.filtro = Vazio
     /\ index # SemIndice
     /\ ult.arg.k >= 1
     /\ Len(ConsultaEmb) = index.d) =>
        LET r == Search(index, ConsultaEmb, ult.arg.k)
            p == ComEntrada(id_para_documento, r.I)
        IN  /\ Len(ult.ret) = Len(p)
            /\ \A i \in 1..Len(p) :
                  /\ ult.ret[i].doc = id_para_documento[r.I[p[i]]]
                  /\ ult.ret[i].sim2 = Similaridade2(r.D[p[i]])

\* C18: a search that resolves documents, of either service, skips the slots
\* without mapping entry and the placeholder -1 and returns every slot that
\* has an entry with its document.
C18_ResolveSkipsMissing == C18_MissingSlotsSkipped /\ C18_MissingSlotsSkippedEmb

\* buscar of the EmbeddingsService returned a document although the search
\* also gave a slot without entry and the placeholder -1, while the index of
\* the FaissService holds a slot without entry too
C18_WitnessBoth ==
    /\ ult.op = "buscar_emb"
    /\ ult.arg.filtro = Vazio
    /\ index # SemIndice
    /\ Len(ult.ret) >= 1
    /\ LET r == Search(index, ConsultaEmb, ult.arg.k)
       IN  /\ \E j \in 1..Len(r.I) : r.I[j] = 0 - 1
           /\ \E j \in 1..Len(r.I) : r.I[j] >= 0 /\ r.I[j] \notin DOMAIN id_para_documento
    /\ IdA \in DOMAIN indices
    /\ mapeamentos[IdA] # Vazio
    /\ \E s \in 0..(NTotal(indices[IdA]) - 1) : s \notin DOMAIN mapeamentos[IdA]

\* the operations of the FaissService that take the id of an index, and
\* what each returns for an id it does not hold
OpsPorId ==
    {"adicionar_vetores", "salvar_indice", "buscar", "buscar_documentos",
     "obter_info_indice", "remover_indice"}
RetornoVazio(op) ==
    CASE op = "buscar" -> SemResultado
      [] op = "buscar_documentos" -> <<>>
      [] op = "obter_info_indice" -> NenhumaInfo
      [] OTHER -> FALSE

\* C21: add, persist, search, document search, info and remove, called with
\* an id that is not in memory, return False, empty lists or None, change
\* none of the three in-memory tables and write no file.
C21_AbsentIdIsNoOp ==
    [][(ult'.op \in OpsPorId /\ ult'.id \notin DOMAIN indices)
       => (/\ ult'.ret = RetornoVazio(ult'.op)
           /\ UNCHANGED <<indices, mapeamentos, metadados, disco>>)]_vars

\* a persist of an id that is not in memory, while another index is in
\* memory and has a snapshot on disk
C21_Witness ==
    /\ ult.op = "salvar_indice"
    /\ ult.id \notin DOMAIN indices
    /\ indices # Vazio
    /\ disco # Vazio

\* C22: once an index is registered under an id, an add, a search, a persist
\* or a load on that id leaves its dimension as it was, and the dimension in
\* its metadata is the dimension of the index.
C22_DimensionFixed ==
    [][\A id \in Ids :
          (/\ id \in DOMAIN indices
           /\ ult'.op \in {"adicionar_vetores", "buscar", "salvar_indice", "carregar_indice"}
           /\ ult'.id = id)
          => (/\ id \in DOMAIN indices'
              /\ indices'[id].d = indices[id].d
              /\ id \in DOMAIN metadados' => metadados'[id].dimensao = indices'[id].d)]_vars

\* C23: after a load that returned True, every slot of the mapping loaded
\* lies in [0, ntotal) of the index loaded.
C23_LoadSkipsOutOfRange ==
    (ult.op = "carregar_indice" /\ ult.ret) =>
        \A k \in DOMAIN mapeamentos[ult.id] :
            0 <= k /\ k < NTotal(indices[ult.id])

\* C24: no line of a document search runs while an add to the same index
\* stands between index.add and the updates of the mapping and of
\* num_vetores.
C24_AddAtomicForReaders ==
    [][(tarefas'.busca # tarefas.busca /\ tarefas.busca.pc # "inativa")
       => ~(tarefas.add.pc \in Meio /\ tarefas.add.id = tarefas.busca.id)]_vars

\* a search that has read the labels of an index that holds vectors, beside
\* an add to the same index that is ready to run
C24_Witness ==
    /\ tarefas.busca.pc = "mapear"
    /\ tarefas.busca.I # <<>>
    /\ tarefas.add.pc = "pronta"
    /\ tarefas.add.id = tarefas.busca.id
    /\ tarefas.add.mapa # Vazio

\* the operations that answer from the structured store when it has a match
Diretas == {"buscar_cliente_por_matricula", "buscar_faturas_cliente"}
CampoDaChave(op) ==
    IF op = "buscar_cliente_por_matricula" THEN "numeroCliente" ELSE "cliente_id"

\* C25: when the structured store holds a document with the identifier
\* asked for, the lookup returns the store's answer (the first client, the
\* list of invoices), calls neither the provider nor the search of the
\* index, and leaves the embedding cache and its files as they were.
C25_ExactMatchBypassesIndex ==
    [][(/\ ult'.op \in Diretas
        /\ BuscarNoBanco(ult'.arg.banco, CampoDaChave(ult'.op), ult'.arg.chave) # <<>>)
       => LET achados == BuscarNoBanco(ult'.arg.banco, CampoDaChave(ult'.op), ult'.arg.chave)
          IN  /\ ult'.ret.valor = IF ult'.op = "buscar_cliente_por_matricula"
                                  THEN achados[1] ELSE achados
              /\ ult'.ret.buscas = 0
              /\ ult'.ret.chamou = 0
              /\ UNCHANGED <<cache_embeddings, disco_cache, chamadas, index,
                             id_para_documento>>]_vars

\* a client found in the store while an index is in memory and the query
\* text of the fallback is not in the cache
C25_Witness ==
    /\ ult.op = "buscar_cliente_por_matricula"
    /\ BuscarNoBanco(ult.arg.banco, "numeroCliente", ult.arg.chave) # <<>>
    /\ Len(ult.arg.banco) > 1
    /\ index # SemIndice
    /\ ChaveCache(ConsultaCliente(ult.arg.chave)) \notin DOMAIN cache_embeddings

\* a gerar_embedding call writes a cache file only when the entry it inserted
\* brought the cache to a multiple of PeriodoSalvar entries
C26_FlushOnlyAtBoundary ==
    [][(ult'.op = "gerar_embedding" /\ disco_cache' # disco_cache)
       => (/\ cache_embeddings' # cache_embeddings
           /\ Cardinality(DOMAIN cache_embeddings') % PeriodoSalvar = 0)]_vars

\* C26: a gerar_embedding call flushes the cache only at the cadence
\* boundary, and while every flush succeeds fewer than PeriodoSalvar entries
\* of the in-memory cache are missing from all the cache files.
C26_FlushCadence ==
    [][/\ (ult'.op = "gerar_embedding" /\ disco_cache' # disco_cache)
          => (/\ cache_embeddings' # cache_embeddings
              /\ Cardinality(DOMAIN cache_embeddings') % PeriodoSalvar = 0)
       /\ Cardinality(NaoSalvos(cache_embeddings', disco_cache')) < PeriodoSalvar]_vars

\* C27: whatever the reads and writes of the cache directory do, a
\* gerar_embedding or gerar_embeddings_batch call that the provider answered
\* returns the provider's vectors and has them in the in-memory cache, and a
\* carregar_cache keeps every entry the cache held (all of them unchanged
\* when nothing could be read).
C27_CacheIOErrorsSwallowed ==
    [][/\ (/\ ult'.op = "gerar_embedding"
           /\ ult'.ret.chamou = 1
           /\ ult'.arg.resp.ok
           /\ ult'.arg.resp.data # <<>>)
          => (/\ ult'.ret.vetor = ult'.arg.resp.data[1]
              /\ ChaveCache(ult'.arg.texto) \in DOMAIN cache_embeddings'
              /\ cache_embeddings'[ChaveCache(ult'.arg.texto)] = ult'.arg.resp.data[1])
       /\ (/\ ult'.op = "gerar_embeddings_batch"
           /\ ult'.ret.chamou = 1
           /\ ult'.arg.resp.ok
           /\ Len(ult'.arg.resp.data) = Len(Faltantes(cache_embeddings, ult'.arg.textos, 1)))
          => LET idxs == Faltantes(cache_embeddings, ult'.arg.textos, 1)
             IN  \A i \in 1..Len(idxs) :
                    /\ ult'.ret.vetores[idxs[i]] = ult'.arg.resp.data[i]
                    /\ ChaveCache(ult'.arg.textos[idxs[i]]) \in DOMAIN cache_embeddings'
       /\ ult'.op = "carregar_cache"
          => (/\ DOMAIN cache_embeddings \subseteq DOMAIN cache_embeddings'
              /\ (ult'.arg.falhaListar \/ ult'.arg.ilegiveis = DOMAIN disco_cache)
                    => cache_embeddings' = cache_embeddings)]_vars

\* a gerar_embedding call brought the cache to ten entries, the write of the
\* cache file failed (the new entry is in no file), and the call returned
\* the provider's vector
C27_Witness ==
    /\ ult.op = "gerar_embedding"
    /\ ult.ret.chamou = 1
    /\ ult.arg.resp.ok
    /\ Cardinality(DOMAIN cache_embeddings) = PeriodoSalvar
    /\ ult.ret.vetor = ult.arg.resp.data[1]
    /\ ChaveCache(ult.arg.texto) \in NaoSalvos(cache_embeddings, disco_cache)

\* loading the files a second time, in the same order, changes nothing
C28_MergeIdempotent ==
    [][(ult'.op = "carregar_cache" /\ ~ult'.arg.falhaListar)
       => CarregarCache(cache_embeddings', disco_cache, ult'.arg.ordem, ult'.arg.ilegiveis)
              = cache_embeddings']_vars

\* C28: the table a carregar_cache leaves is the one every other order of
\* reading the same files would have left, and reading the files once more
\* does not change it.
C28_MergeCommutativeIdempotent ==
    [][(ult'.op = "carregar_cache" /\ ~ult'.arg.falhaListar)
       => (/\ \A o \in Ordens(DOMAIN disco_cache) :
                 CarregarCache(cache_embeddings, disco_cache, o, ult'.arg.ilegiveis)
                     = cache_embeddings'
           /\ CarregarCache(cache_embeddings', disco_cache, ult'.arg.ordem,
                            ult'.arg.ilegiveis) = cache_embeddings')]_vars

\* C29: a construir_indice_faiss call leaves every file that was in the
\* directory before it, with the content it had.
C29_RebuildKeepsSnapshots ==
    [][ult'.op = "construir_indice_faiss"
       => \A f \in DOMAIN disco : f \in DOMAIN disco' /\ disco'[f] = disco[f]]_vars

\* the ids that have a snapshot in the directory, and the index of the
\* newest snapshot of an id
Persistidos(d) ==
    {id \in Ids : \E t \in 0..MaxClock : NomeIndice(id, Timestamp(t)) \in DOMAIN d}
UltimoSnapshot(d, id) ==
    LET t == CHOOSE u \in 0..MaxClock :
                 /\ NomeIndice(id, Timestamp(u)) \in DOMAIN d
                 /\ \A w \in 0..MaxClock :
                       NomeIndice(id, Timestamp(w)) \in DOMAIN d => w <= u
    IN  d[NomeIndice(id, Timestamp(t))].idx

\* C30: after inicializar has run, every id that has a snapshot in the
\* directory is registered, with the index of its newest snapshot.
C30_StartupAdoptsLatest ==
    (ult.op = "inicializar" /\ ult.ret) =>
        \A id \in Persistidos(disco) :
            /\ id \in DOMAIN indices
            /\ indices[id] = UltimoSnapshot(disco, id)

\* the version token of a .index file name: its last two characters before
\* the extension
TokenDe(nome) == SubSeq(nome, Len(nome) - Len(ExtIndex) - 1, Len(nome) - Len(ExtIndex))

\* a carregar_indice_faiss call without a path adopts the index of the
\* snapshot with the newest token, when one snapshot is newer than all others
C30_EmbAdoptsLatest ==
    [][(ult'.op = "carregar_indice_faiss" /\ ult'.arg = None)
       => \A f \in DOMAIN disco :
             (/\ EndsWith(f, ExtIndex)
              /\ \A g \in DOMAIN disco :
                    (EndsWith(g, ExtIndex) /\ g # f) => StrLess(TokenDe(g), TokenDe(f)))
             => index' = disco[f].idx]_vars


(* ============ properties of the rebuilt index and its snapshots ======== *)
\* the documents of a list that carry an embedding, in the order of the list:
\* the document whose vector index.add stores at position s is element s + 1
Indexados(documentos) == SelectSeq(documentos, LAMBDA d : d.embedding # None)

\* C31: after a successful construir_indice_faiss, every key s of
\* id_para_documento is a slot below the number of indexed vectors and maps
\* to the document whose embedding is stored at position s, and every
\* indexed vector has an entry.
C31_BuildSlotsAligned ==
    [][(ult'.op = "construir_indice_faiss" /\ ult'.ret) =>
          LET docs == Indexados(ult'.arg)
          IN  /\ NTotal(index') = Len(docs)
              /\ \A s \in DOMAIN id_para_documento' :
                    /\ s >= 0 /\ s < NTotal(index')
                    /\ id_para_documento'[s] = docs[s + 1].documento
              /\ \A s \in 0..(NTotal(index') - 1) : s \in DOMAIN id_para_documento']_vars

\* C32: the blob, the mapping and the metadata one load adopts come from one
\* snapshot: the mapping file and the metadata file that
\* carregar_indice_faiss (without a path) and carregar_indice read are the
\* ones written under the id and the version token of the blob file.
C32_LoadReadsOneSnapshot ==
    [][/\ ult'.op = "carregar_indice_faiss" =>
             LET a == ArquivosFaiss(disco, ult'.arg)
             IN  a.nome # None =>
                     /\ a.map \in {None, ArquivoMapeamentoDe(a.nome)}
                     /\ a.meta \in {None, ArquivoMetadataDe(a.nome)}
       /\ ult'.op = "carregar_indice" =>
             LET nome == NomeEscolhido(disco, ult'.id, ult'.arg)
                 ts == IF nome = None THEN None ELSE TimestampDe(nome)
             IN  (nome # None /\ Verdadeiro(ts)) =>
                     /\ NomeMapeamento(ult'.id, ts) \in DOMAIN disco
                           => NomeMapeamento(ult'.id, ts) = ArquivoMapeamentoDe(nome)
                     /\ NomeMetadata(ult'.id, ts) \in DOMAIN disco
                           => NomeMetadata(ult'.id, ts) = ArquivoMetadataDe(nome)]_vars

\* the entry of key k is the same in the dicts f and g, or absent from both
MesmaEntrada(f, g, k) ==
    /\ (k \in DOMAIN f) = (k \in DOMAIN g)
    /\ k \in DOMAIN f => f[k] = g[k]

\* the operations that take an index id
OpsDeUmIndice == OpsPorId \cup {"criar_indice", "carregar_indice"}

\* C33: indices are isolated from one another: an operation called with id A
\* changes no vector, mapping entry or metadata of another id B, and a load
\* of A never adopts a snapshot file that was persisted for B.
C33_IndicesIsolated ==
    [][\A A \in Ids :
          (ult'.id = A /\ ult'.op \in OpsDeUmIndice) =>
              \A B \in Ids \ {A} :
                  /\ MesmaEntrada(indices, indices', B)
                  /\ MesmaEntrada(mapeamentos, mapeamentos', B)
                  /\ MesmaEntrada(metadados, metadados', B)
                  /\ (ult'.op = "carregar_indice"
                        /\ Carga(disco, A, ult'.arg).etapa # "nada") =>
                         \A t \in 0..MaxClock :
                             Carga(disco, A, ult'.arg).nome # NomeIndice(B, Timestamp(t))]_vars

\* C34: construir_indice_faiss returns True only when the rebuilt index was
\* persisted: the blob, the mapping file and the metadata file of its
\* snapshot were written whole.
C34_BuildReportsPersist ==
    [][(ult'.op = "construir_indice_faiss" /\ ult'.ret) =>
          LET id == indice_metadata'.id
              ts == Timestamp(relogio)
          IN  /\ NomeIndice(id, ts) \in DOMAIN disco'
              /\ disco'[NomeIndice(id, ts)].idx = index'
              /\ NomeMapeamento(id, ts) \in DOMAIN disco'
              /\ disco'[NomeMapeamento(id, ts)].completo
              /\ NomeMetadata(id, ts) \in DOMAIN disco'
              /\ disco'[NomeMetadata(id, ts)].completo]_vars

\* C35: in every reachable state of the FaissService the three in-memory
\* tables agree: indices, metadados and mapeamentos have the same keys, and
\* metadados[id].num_vetores is the vector count of indices[id].
C35_TablesAgree ==
    /\ DOMAIN indices = DOMAIN metadados
    /\ DOMAIN indices = DOMAIN mapeamentos
    /\ \A id \in (DOMAIN indices) \cap (DOMAIN metadados) :
          metadados[id].num_vetores = NTotal(indices[id])

(* ================== properties of the embedding cache ================== *)
\* the keys of the texts of a call: one text, or the list of a batch
ChavesDaChamada(c) ==
    IF c.op = "gerar_embedding" THEN {ChaveCache(c.arg.texto)}
    ELSE {ChaveCache(c.arg.textos[i]) : i \in 1..Len(c.arg.textos)}

\* the vectors a call hands back
VetoresDaChamada(c) ==
    IF c.op = "gerar_embedding" THEN {c.ret.vetor}
    ELSE {c.ret.vetores[i] : i \in 1..Len(c.ret.vetores)}

\* C36: the zero vector substituted on provider failure is never written to
\* the cache: no entry holds it, an entry a call adds or changes holds a
\* vector of the provider's answer to that call, under the key of one of its
\* texts, and a call whose provider call failed, or that handed back a zero
\* vector, leaves the cache as it was.
C36_ZerosNeverCached ==
    [][ult'.op \in {"gerar_embedding", "gerar_embeddings_batch"} =>
          /\ \A k \in DOMAIN cache_embeddings' :
                cache_embeddings'[k] # [j \in 1..DimensaoEmb |-> 0]
          /\ DOMAIN cache_embeddings \subseteq DOMAIN cache_embeddings'
          /\ \A k \in DOMAIN cache_embeddings' :
                (k \notin DOMAIN cache_embeddings \/ cache_embeddings'[k] # cache_embeddings[k])
                   => /\ ult'.arg.resp.ok
                      /\ k \in ChavesDaChamada(ult')
                      /\ \E i \in 1..Len(ult'.arg.resp.data) :
                            cache_embeddings'[k] = ult'.arg.resp.data[i]
          /\ (ult'.ret.chamou = 1 /\ ~ult'.arg.resp.ok) => cache_embeddings' = cache_embeddings
          /\ [j \in 1..DimensaoEmb |-> 0] \in VetoresDaChamada(ult')
                => cache_embeddings' = cache_embeddings]_vars

\* gerar_embedding of a text that is not cached met a failing provider and
\* handed back the zeros, while the cache holds another text
C36_Witness ==
    /\ ult.op = "gerar_embedding"
    /\ ult.ret.chamou = 1
    /\ ~ult.arg.resp.ok
    /\ ult.ret.vetor = [j \in 1..DimensaoEmb |-> 0]
    /\ cache_embeddings # Vazio
    /\ ChaveCache(ult.arg.texto) \notin DOMAIN cache_embeddings

\* every key of the cache file written last is in the table a fresh service
\* loads from a directory it can read
C37_FlushedKeysRestored ==
    [][(/\ ult'.op = "carregar_cache"
        /\ cache_embeddings = Vazio
        /\ ~ult'.arg.falhaListar
        /\ ult'.arg.ilegiveis = {}
        /\ disco_cache # Vazio)
       => DOMAIN disco_cache[MaiorNome(DOMAIN disco_cache)] \subseteq DOMAIN cache_embeddings']_vars

\* C37: after a successful salvar_cache, a fresh service that runs
\* carregar_cache over the directory holds every key of the flushed cache
\* with the vector that was flushed, whatever earlier cache files lie
\* beside the one written last.
C37_CacheRoundTrip ==
    [][(/\ ult'.op = "carregar_cache"
        /\ cache_embeddings = Vazio
        /\ ~ult'.arg.falhaListar
        /\ ult'.arg.ilegiveis = {}
        /\ disco_cache # Vazio)
       => LET flushed == disco_cache[MaiorNome(DOMAIN disco_cache)]
          IN  \A k \in DOMAIN flushed :
                 /\ k \in DOMAIN cache_embeddings'
                 /\ cache_embeddings'[k] = flushed[k]]_vars

(* ===================== properties of a failed build ==================== *)
\* C38: a construir_indice_faiss call that returns False (empty list, no
\* document with an embedding, or an error while building) leaves the
\* current index, id_para_documento and indice_metadata as they were.
C38_FailedBuildKeepsState ==
    [][(ult'.op = "construir_indice_faiss" /\ ~ult'.ret)
       => UNCHANGED <<index, id_para_documento, indice_metadata>>]_vars

\* a build whose embeddings have two lengths failed while the service holds
\* the index of an earlier build
C38_Witness ==
    /\ ult.op = "construir_indice_faiss"
    /\ ~ult.ret
    /\ Embeddings(ult.arg) # <<>>
    /\ ~Matriz(Embeddings(ult.arg))
    /\ index # SemIndice
    /\ id_para_documento # Vazio

(* ====================== properties of the sessions ===================== *)
\* the dict of the session sessao_id is in a file of the store
SessaoEmArquivo(sessao_id) == \E k \in DOMAIN db_sessoes : db_sessoes[k].id = sessao_id

\* C39: a session the SessionManager creates is stored in the session store
\* under the id the manager returned: right after criar_sessao the store's
\* obter_sessao of that id yields its data, persistir_sessao and
\* atualizar_timestamp_sessao update the stored record and return True, and
\* obter_sessao restores the session once the tables in memory are lost.
C39_SessionStoredUnderItsId ==
    [][/\ ult'.op = "criar_sessao" =>
             LET d == StoreObterSessao(store_sessoes', db_sessoes', ult'.ret.id).dados
             IN  d # SemDados /\ d.matricula = ult'.arg.matricula
       /\ ult'.op = "persistir_sessao" =>
             /\ ult'.ret
             /\ ult'.arg.sessao_id \in DOMAIN store_sessoes'
       /\ (ult'.op = "atualizar_timestamp_sessao"
             /\ ult'.arg.sessao_id \in DOMAIN sm_sessoes) =>
             /\ ult'.ret
             /\ ult'.arg.sessao_id \in DOMAIN store_sessoes'
             /\ store_sessoes'[ult'.arg.sessao_id].ultima_atividade = relogio
       /\ (ult'.op = "obter_sessao"
             /\ ult'.arg.sessao_id \notin DOMAIN sm_sessoes
             /\ SessaoEmArquivo(ult'.arg.sessao_id)) =>
             ult'.ret # SemSessao]_vars
====
